---- MODULE Spec2Model ----
(***************************************************************************)
(* Verification model of gitparent's `gitp` (src/gitparent/gitp.py).       *)
(*                                                                         *)
(* The module holds several state machines, one per subsystem, each with   *)
(* its own variables, Init, Next and specification:                        *)
(*   SpecLock     - the lock server (server.run_server.handle_lock_req)    *)
(*   SpecLockLive - the lock server under the event loop's fairness        *)
(*   SpecManifest - one .gitp_manifest file and its Manifest object        *)
(*   SpecStash    - stash push / pop / drop / clear / branch over a tree   *)
(*   SpecSync     - sync on a cloned four-level tree                       *)
(*   SpecNew      - new and rm on a parent repo                            *)
(*   SpecClone    - clone, pull and sync from a local source tree          *)
(*   SpecOverlay  - link, sync and exec on a workspace with a linked child *)
(*   SpecHooks    - pull on a tree whose manifests carry hook commands     *)
(*   SpecPush     - push on the workspace                                  *)
(*   SpecGuard    - pull, sync, link and rm on a workspace with local work *)
(*   SpecCommit   - commit on workspaces with an overlay in place          *)
(*   SpecTarget   - pull --target on a tree with links and prefix siblings *)
(*   SpecNested   - pull, sync, clone with an overlay entry below the top  *)
(*   SpecPin      - pull, clone, new --commit with entries that pin a commit *)
(*   SpecNewest   - resolve_repo_link and pull with a link_newest entry      *)
(*   SpecClient   - push, pull, fetch as clients of the lock server          *)
(*   SpecCheckout - checkout of a ref inside a child repo                    *)
(* A specification leaves the variables of the other subsystems untouched. *)
(***************************************************************************)
EXTENDS Integers, Sequences, FiniteSets, TLC

(***************************************************************************)
(* STATE                                                                   *)
(***************************************************************************)
\* --- lock server (server.run_server) ---
VARIABLES
    MAX_CONNS,     \* run_server: queue size the server was started with
    EVENTS,        \* run_server: list of waiters' events, one per queued connection
    IDS,           \* run_server: list of request ids in use
    evflag,        \* the flag of each connection's asyncio.Event
    hpc,           \* where each connection's handle_lock_req coroutine stands
    req_id,        \* handle_lock_req: the id assigned to the connection (0: none)
    lock_granted,  \* handle_lock_req: the nonlocal flag set by notify_change
    sent,          \* what the server wrote to each connection, in order
    cstate,        \* client end of each connection: open / data / eof / reset
    order,         \* history: connections in the order handle_lock_req was entered
                   \* (connections are numbered in their order of arrival)
    busyAtConnect  \* history: was the queue non-empty when the connection arrived

lockVars == <<MAX_CONNS, EVENTS, IDS, evflag, hpc, req_id, lock_granted, sent,
              cstate, order, busyAtConnect>>

\* --- clients of the lock server (obtain_server_lock; push, pull, fetch) ---
VARIABLES
    cpc,       \* where each client's main thread stands
    wpc,       \* where the protected operation of each client stands
    wstep,     \* history: the commands the protected operation has completed
    inflight   \* is a command the protected operation started still running

clientVars == <<cpc, wpc, wstep, inflight>>

\* --- manifest store (Manifest, get_manifest) ---
VARIABLES
    gitp_manifest,  \* content of one .gitp_manifest file, as yaml.safe_load returns it
    manifest,       \* the Manifest object in memory
    mstage,         \* file / loaded / written / reloaded / error
    written         \* history: the Manifest object as it was when write() ran

manifestVars == <<gitp_manifest, manifest, mstage, written>>

\* --- stash stack (stash) ---
VARIABLES
    worktree,       \* per repo: the set of tracked files with local modifications
    git_stash,      \* per repo: git's own stash list, top first; each entry carries
                    \* the message it was saved with and the changes it holds
    gitp_stashes,   \* the lines of the top-level .gitp_stashes file, top first
    stash_raised,   \* did the last stash command end with an exception
    stash_phase,    \* history: edited / pushed (last command was a push) /
                    \* popped (a pop ran right after a push) / dropped /
                    \* cleared / branched
    pre_worktree,   \* history: worktree as it was before the last push
    pre_stashes,    \* history: .gitp_stashes as it was before the last push
    stash_op        \* history: the last pop or drop: its reference, whether it
                    \* ended with 'Unknown stash', and the file and the git
                    \* stash lists it started from

stashVars == <<worktree, git_stash, gitp_stashes, stash_raised, stash_phase,
               pre_worktree, pre_stashes, stash_op>>

\* --- working trees (sync, pull, clone, new, rm, link, exec) ---
VARIABLES
    disk,    \* what every existing path of the work area holds
    last,    \* history: the last command and whether it raised
    before,  \* history: disk as it was when the last gitp command started
    ran      \* exec: the directories a command was run in, in order

treeVars == <<disk, last, before, ran>>

vars == <<lockVars, clientVars, manifestVars, stashVars, treeVars>>

\* what the actions of one subsystem leave alone
notLock     == <<clientVars, manifestVars, stashVars, treeVars>>
notClient   == <<manifestVars, stashVars, treeVars>>
notManifest == <<lockVars, clientVars, stashVars, treeVars>>
notStash    == <<lockVars, clientVars, manifestVars, treeVars>>
notTree     == <<lockVars, clientVars, manifestVars, stashVars>>

(***************************************************************************)
(* Generic helpers                                                         *)
(***************************************************************************)
None == "None"

Range(s) == {s[i] : i \in 1..Len(s)}

\* a local name for a value: F applied to v, with v computed once
With(v, F(_)) == F(v)

\* list.remove(x): drops the first occurrence of x
RECURSIVE RemoveFirst(_, _)
RemoveFirst(s, x) ==
    IF s = <<>> THEN <<>>
    ELSE IF Head(s) = x THEN Tail(s)
    ELSE <<Head(s)>> \o RemoveFirst(Tail(s), x)

(***************************************************************************)
(* LOCK SERVER  (gitp.py 2527-2643)                                        *)
(***************************************************************************)
\* bounds of the lock-server model
NumConns     == 3      \* connection attempts made during one behaviour
MaxQueueSize == 3      \* largest --queue_size the server is started with
MaxReqId     == 3      \* request ids are drawn from 1..MaxReqId

\* program constants (argparse defaults of `server`)
DefaultTimeout       == 30
DefaultTimeoutMargin == 5

Conns   == 1..NumConns
IdSpace == 1..MaxReqId

TIMEOUT        == DefaultTimeout
CLIENT_TIMEOUT == DefaultTimeout - DefaultTimeoutMargin

\* notify_change: the waiter's index in EVENTS (0 when it is not found)
PlaceInLineGrantSecond(ev, c) ==
    LET idx == {i \in 1..Len(ev) : ev[i] = c}
        p   == IF idx = {} THEN 0
               ELSE (CHOOSE i \in idx : \A j \in idx : j <= i) - 1
    IN  IF p <= 1 THEN 0 ELSE p

PlaceInLine(ev, c) ==
    LET idx == {i \in 1..Len(ev) : ev[i] = c}
    IN  IF idx = {} THEN 0
        ELSE (CHOOSE i \in idx : \A j \in idx : j <= i) - 1

\* 'Reject connection -- queue is full': len(EVENTS) >= MAX_CONNS
QueueFullOffByOne(ev, max_conns) == Len(ev) > max_conns

QueueFull(ev, max_conns) == Len(ev) >= max_conns

\* EVENTS.append(obtained_lock_event)
EnqueueAtFront(ev, c) == <<c>> \o ev

Enqueue(ev, c) == Append(ev, c)

\* one pass of notify_change's loop body for connection c over queue ev:
\* the grant "0:<CLIENT_TIMEOUT>" at place 0, otherwise "<place>."
NotifyMsgOneBased(ev, c) ==
    IF PlaceInLine(ev, c) = 0 THEN <<"grant", CLIENT_TIMEOUT>>
    ELSE <<"place", PlaceInLine(ev, c) + 1>>

NotifyMsg(ev, c) ==
    IF PlaceInLine(ev, c) = 0 THEN <<"grant", CLIENT_TIMEOUT>>
    ELSE <<"place", PlaceInLine(ev, c)>>

Granted(c) == \E i \in 1..Len(sent[c]) : sent[c][i][1] = "grant"

LockInit ==
    /\ MAX_CONNS \in 1..MaxQueueSize
    /\ EVENTS = <<>>
    /\ IDS = <<>>
    /\ evflag = [c \in Conns |-> FALSE]
    /\ hpc = [c \in Conns |-> "new"]
    /\ req_id = [c \in Conns |-> 0]
    /\ lock_granted = [c \in Conns |-> FALSE]
    /\ sent = [c \in Conns |-> <<>>]
    /\ cstate = [c \in Conns |-> "open"]
    /\ order = <<>>
    /\ busyAtConnect = [c \in Conns |-> FALSE]

\* handle_lock_req, entry: the queue is full, the connection is closed at once
Reject(c) ==
    /\ hpc[c] = "new"
    /\ c = Len(order) + 1
    /\ QueueFull(EVENTS, MAX_CONNS)
    /\ hpc' = [hpc EXCEPT ![c] = "rejected"]
    /\ order' = Append(order, c)
    /\ busyAtConnect' = [busyAtConnect EXCEPT ![c] = EVENTS # <<>>]
    /\ UNCHANGED <<MAX_CONNS, EVENTS, IDS, evflag, req_id, lock_granted, sent, cstate>>
    /\ UNCHANGED notLock

\* handle_lock_req, entry to the first suspension: the connection is queued,
\* gets an unused random id, and notify_change runs its first pass (drain()
\* of a few bytes on a live transport does not suspend)
Accept(c, id) ==
    /\ hpc[c] = "new"
    /\ c = Len(order) + 1
    /\ ~QueueFull(EVENTS, MAX_CONNS)
    /\ id \in IdSpace \ Range(IDS)
    /\ LET ev  == Enqueue(EVENTS, c)
           msg == NotifyMsg(ev, c)
       IN  /\ EVENTS' = ev
           /\ sent' = [sent EXCEPT ![c] = <<<<"id", id>>, msg>>]
           /\ lock_granted' = [lock_granted EXCEPT ![c] = (msg[1] = "grant")]
           /\ hpc' = [hpc EXCEPT ![c] = IF msg[1] = "grant" THEN "granted" ELSE "waiting"]
    /\ IDS' = Append(IDS, id)
    /\ req_id' = [req_id EXCEPT ![c] = id]
    /\ order' = Append(order, c)
    /\ busyAtConnect' = [busyAtConnect EXCEPT ![c] = EVENTS # <<>>]
    /\ UNCHANGED <<MAX_CONNS, evflag, cstate>>
    /\ UNCHANGED notLock

\* handle_lock_req, entry, when the client is already gone: the write of the
\* id fails, the transport is closing, and drain() yields before it raises
AcceptClosing(c, id) ==
    /\ hpc[c] = "new"
    /\ c = Len(order) + 1
    /\ ~QueueFull(EVENTS, MAX_CONNS)
    /\ id \in IdSpace \ Range(IDS)
    /\ EVENTS' = Enqueue(EVENTS, c)
    /\ IDS' = Append(IDS, id)
    /\ req_id' = [req_id EXCEPT ![c] = id]
    /\ sent' = [sent EXCEPT ![c] = <<<<"id", id>>>>]
    /\ cstate' = [cstate EXCEPT ![c] = "reset"]
    /\ hpc' = [hpc EXCEPT ![c] = "drain"]
    /\ order' = Append(order, c)
    /\ busyAtConnect' = [busyAtConnect EXCEPT ![c] = EVENTS # <<>>]
    /\ UNCHANGED <<MAX_CONNS, evflag, lock_granted>>
    /\ UNCHANGED notLock

\* the `finally` clause: the id is released, the connection leaves the queue,
\* every remaining waiter's event is set
FinallyNoNotify(c) ==
    /\ IDS' = RemoveFirst(IDS, req_id[c])
    /\ EVENTS' = RemoveFirst(EVENTS, c)
    /\ evflag' = evflag
    /\ hpc' = [hpc EXCEPT ![c] = "closed"]

Finally(c) ==
    /\ IDS' = RemoveFirst(IDS, req_id[c])
    /\ EVENTS' = RemoveFirst(EVENTS, c)
    /\ evflag' = [d \in Conns |-> IF d \in Range(RemoveFirst(EVENTS, c)) THEN TRUE ELSE evflag[d]]
    /\ hpc' = [hpc EXCEPT ![c] = "closed"]

\* drain() raises ConnectionResetError after its yield
DrainRaise(c) ==
    /\ hpc[c] = "drain"
    /\ Finally(c)
    /\ UNCHANGED <<MAX_CONNS, req_id, lock_granted, sent, cstate, order, busyAtConnect>>
    /\ UNCHANGED notLock

\* notify_change: the waiter's event was set; it clears it and runs the next pass
Wake(c) ==
    /\ hpc[c] = "waiting"
    /\ evflag[c]
    /\ LET msg == NotifyMsg(EVENTS, c)
       IN  /\ sent' = [sent EXCEPT ![c] = Append(@, msg)]
           /\ lock_granted' = [lock_granted EXCEPT ![c] = (msg[1] = "grant")]
           /\ hpc' = [hpc EXCEPT ![c] = IF msg[1] = "grant" THEN "granted" ELSE "waiting"]
           /\ evflag' = [evflag EXCEPT ![c] = FALSE]
    /\ UNCHANGED <<MAX_CONNS, EVENTS, IDS, req_id, cstate, order, busyAtConnect>>
    /\ UNCHANGED notLock

\* the client writes to the socket ('done', or anything else)
ClientSend(c) ==
    /\ hpc[c] \in {"waiting", "granted"}
    /\ cstate[c] = "open"
    /\ cstate' = [cstate EXCEPT ![c] = "data"]
    /\ UNCHANGED <<MAX_CONNS, EVENTS, IDS, evflag, hpc, req_id, lock_granted, sent, order, busyAtConnect>>
    /\ UNCHANGED notLock

\* the client closes its socket: the server's reader sees EOF
ClientClose(c) ==
    /\ hpc[c] \in {"waiting", "granted"}
    /\ cstate[c] = "open"
    /\ cstate' = [cstate EXCEPT ![c] = "eof"]
    /\ UNCHANGED <<MAX_CONNS, EVENTS, IDS, evflag, hpc, req_id, lock_granted, sent, order, busyAtConnect>>
    /\ UNCHANGED notLock

\* the connection is reset: the server's next read raises
ClientReset(c) ==
    /\ hpc[c] \in {"waiting", "granted"}
    /\ cstate[c] = "open"
    /\ cstate' = [cstate EXCEPT ![c] = "reset"]
    /\ UNCHANGED <<MAX_CONNS, EVENTS, IDS, evflag, hpc, req_id, lock_granted, sent, order, busyAtConnect>>
    /\ UNCHANGED notLock

\* wait_for_release: reader.read() returned data or raised; on EOF it returns
\* b'' and the loop sleeps on
Release(c) ==
    /\ hpc[c] = "granted"
    /\ cstate[c] \in {"data", "reset"}
    /\ Finally(c)
    /\ UNCHANGED <<MAX_CONNS, req_id, lock_granted, sent, cstate, order, busyAtConnect>>
    /\ UNCHANGED notLock

\* asyncio.wait_for(wait_for_release(), TIMEOUT) expires
Timeout(c) ==
    /\ hpc[c] = "granted"
    /\ Finally(c)
    /\ UNCHANGED <<MAX_CONNS, req_id, lock_granted, sent, cstate, order, busyAtConnect>>
    /\ UNCHANGED notLock

LockNext ==
    \/ \E c \in Conns : Reject(c)
    \/ \E c \in Conns, id \in IdSpace : Accept(c, id)
    \/ \E c \in Conns, id \in IdSpace : AcceptClosing(c, id)
    \/ \E c \in Conns : DrainRaise(c)
    \/ \E c \in Conns : Wake(c)
    \/ \E c \in Conns : ClientSend(c)
    \/ \E c \in Conns : ClientClose(c)
    \/ \E c \in Conns : ClientReset(c)
    \/ \E c \in Conns : Release(c)
    \/ \E c \in Conns : Timeout(c)

(***************************************************************************)
(* CLIENTS OF THE LOCK SERVER  (obtain_server_lock, gitp.py 837-890; its   *)
(* callers fetch 1001-1005, pull 1494-1499, push 2079-2085; main 2687-2706)*)
(*                                                                         *)
(* Client c owns connection c.  One more client, Solo, runs the same       *)
(* operation from a manifest without lock_server: `w()` on its main thread.*)
(* The protected operation is a sequence of commands (git, hooks), each a  *)
(* child process the operation waits for.                                  *)
(***************************************************************************)
NumClients == 2    \* clients that connect to the lock server
MaxSteps   == 2    \* commands one protected operation runs at most

ClientConns == 1..NumClients
Solo        == NumClients + 1
Clients     == ClientConns \cup {Solo}

ClientInit ==
    /\ cpc = [c \in Clients |-> "wait"]
    /\ wpc = [c \in Clients |-> "none"]
    /\ wstep = [c \in Clients |-> 0]
    /\ inflight = [c \in Clients |-> FALSE]

\* the recv loop reads '' from a connection the server closed at once:
\* `raise Exception()`, which main reports
ClientRejected(c) ==
    /\ cpc[c] = "wait"
    /\ hpc[c] = "rejected"
    /\ cpc' = [cpc EXCEPT ![c] = "raising"]
    /\ UNCHANGED <<wpc, wstep, inflight>>
    /\ UNCHANGED lockVars
    /\ UNCHANGED notClient

\* the recv loop reads '0:<timeout>': threading.Thread(target=func,
\* daemon=True) is started and the main thread enters t.join(timeout)
ClientStart(c) ==
    /\ cpc[c] = "wait"
    /\ Granted(c)
    /\ cpc' = [cpc EXCEPT ![c] = "join"]
    /\ wpc' = [wpc EXCEPT ![c] = "running"]
    /\ UNCHANGED <<wstep, inflight>>
    /\ UNCHANGED lockVars
    /\ UNCHANGED notClient

\* no lock_server in the manifest: `w()` is called on the main thread
SoloStart ==
    /\ cpc[Solo] = "wait"
    /\ cpc' = [cpc EXCEPT ![Solo] = "call"]
    /\ wpc' = [wpc EXCEPT ![Solo] = "running"]
    /\ UNCHANGED <<wstep, inflight>>
    /\ UNCHANGED lockVars
    /\ UNCHANGED notClient

\* the operation starts a command (_git, _exec: subprocess) and waits for it
WorkerBegin(c) ==
    /\ wpc[c] = "running"
    /\ ~inflight[c]
    /\ wstep[c] < MaxSteps
    /\ inflight' = [inflight EXCEPT ![c] = TRUE]
    /\ UNCHANGED <<cpc, wpc, wstep>>
    /\ UNCHANGED lockVars
    /\ UNCHANGED notClient

\* the command completes; a child process does so whether or not the
\* process that started it still runs
WorkerEnd(c) ==
    /\ inflight[c]
    /\ inflight' = [inflight EXCEPT ![c] = FALSE]
    /\ wstep' = [wstep EXCEPT ![c] = @ + 1]
    /\ UNCHANGED <<cpc, wpc>>
    /\ UNCHANGED lockVars
    /\ UNCHANGED notClient

\* the operation returns
WorkerFinish(c) ==
    /\ wpc[c] = "running"
    /\ ~inflight[c]
    /\ wpc' = [wpc EXCEPT ![c] = "finished"]
    /\ UNCHANGED <<cpc, wstep, inflight>>
    /\ UNCHANGED lockVars
    /\ UNCHANGED notClient

\* the operation raises (a command failed: CalledProcessError turned into
\* Exception); in a thread the exception ends the thread and goes no further
WorkerRaise(c) ==
    /\ wpc[c] = "running"
    /\ ~inflight[c]
    /\ wstep[c] > 0
    /\ wpc' = [wpc EXCEPT ![c] = "raised"]
    /\ UNCHANGED <<cpc, wstep, inflight>>
    /\ UNCHANGED lockVars
    /\ UNCHANGED notClient

\* t.join returns because the thread ended, t.is_alive() is False; the
\* `finally` clause sends 'done' and closes the socket, and
\* obtain_server_lock returns
JoinReturn(c) ==
    /\ cpc[c] = "join"
    /\ wpc[c] \in {"finished", "raised"}
    /\ cpc' = [cpc EXCEPT ![c] = "return"]
    /\ cstate' = [cstate EXCEPT ![c] = "data"]
    /\ UNCHANGED <<wpc, wstep, inflight>>
    /\ UNCHANGED <<MAX_CONNS, EVENTS, IDS, evflag, hpc, req_id, lock_granted, sent, order, busyAtConnect>>
    /\ UNCHANGED notClient

\* t.join returns after `timeout` seconds, t.is_alive() is True: 'Operation
\* timed out' is raised; the `finally` clause sends 'done' and closes the
\* socket
JoinTimeout(c) ==
    /\ cpc[c] = "join"
    /\ wpc[c] = "running"
    /\ cpc' = [cpc EXCEPT ![c] = "raising"]
    /\ cstate' = [cstate EXCEPT ![c] = "data"]
    /\ UNCHANGED <<wpc, wstep, inflight>>
    /\ UNCHANGED <<MAX_CONNS, EVENTS, IDS, evflag, hpc, req_id, lock_granted, sent, order, busyAtConnect>>
    /\ UNCHANGED notClient

\* `w()` on the main thread returns, or its exception propagates
SoloReturn ==
    /\ cpc[Solo] = "call"
    /\ wpc[Solo] \in {"finished", "raised"}
    /\ cpc' = [cpc EXCEPT ![Solo] = IF wpc[Solo] = "raised" THEN "raising" ELSE "return"]
    /\ UNCHANGED <<wpc, wstep, inflight>>
    /\ UNCHANGED lockVars
    /\ UNCHANGED notClient

\* main: an exception is printed as 'Error: ...' and sys.exit(1); otherwise
\* sys.exit(CLI_RETURN_CODE).  The interpreter exits without waiting for a
\* daemon thread
ClientExit(c) ==
    /\ cpc[c] \in {"return", "raising"}
    /\ cpc' = [cpc EXCEPT ![c] = IF cpc[c] = "raising" THEN "exit1" ELSE "exit0"]
    /\ wpc' = [wpc EXCEPT ![c] = IF wpc[c] = "running" THEN "killed" ELSE @]
    /\ UNCHANGED <<wstep, inflight>>
    /\ UNCHANGED lockVars
    /\ UNCHANGED notClient

\* (the request id a connection gets does not reach the client's control
\* flow: connection c is given id c)
ClientNext ==
    \/ \E c \in ClientConns : Reject(c)
    \/ \E c \in ClientConns : Accept(c, c)
    \/ \E c \in ClientConns : Wake(c)
    \/ \E c \in ClientConns : Release(c)
    \/ \E c \in ClientConns : Timeout(c)
    \/ \E c \in ClientConns : ClientRejected(c)
    \/ \E c \in ClientConns : ClientStart(c)
    \/ SoloStart
    \/ \E c \in Clients : WorkerBegin(c)
    \/ \E c \in Clients : WorkerEnd(c)
    \/ \E c \in Clients : WorkerFinish(c)
    \/ \E c \in Clients : WorkerRaise(c)
    \/ \E c \in ClientConns : JoinReturn(c)
    \/ \E c \in ClientConns : JoinTimeout(c)
    \/ SoloReturn
    \/ \E c \in Clients : ClientExit(c)

(***************************************************************************)
(* MANIFEST STORE  (gitp.py 64-197)                                        *)
(*                                                                         *)
(* A child key is a path: a sequence of segment names; a trailing          *)
(* separator shows as a last segment "" ('sub/' is <<"sub", "">>).         *)
(* A raw manifest (what yaml.safe_load returns for the file) is a function *)
(* from the keys present in the file to their values; a raw entry likewise.*)
(***************************************************************************)
\* Manifest.Repo.__init__: the attributes, in the order __dict__ holds them
Fields   == <<"url", "branch", "commit", "link", "link_newest", "link_filter", "type">>
FieldSet == Range(Fields)

\* Manifest.Repo(): every attribute None
NewRepo == [f \in FieldSet |-> None]

\* Manifest.__init__: no children, no lock server, no hooks
\* lock_server is a (host, port) tuple; the empty tuple stands for None
NoServer == <<>>

EmptyManifest == [repos |-> <<>>, lock_server |-> NoServer, post_clone |-> <<>>, post_pull |-> <<>>]

\* Manifest.as_dict: only 'repos' is emitted; attributes that are None are left out
AsDictEntry(child_info) ==
    [k \in {f \in FieldSet : child_info[f] # None} |-> child_info[k]]

as_dict(mf) ==
    [k \in {"repos"} |-> [c \in DOMAIN mf.repos |-> AsDictEntry(mf.repos[c])]]

\* the strings a 'lock_server:' line may hold, and re.search(r'^([^:]+):(\d+)$')
\* on each: the (host, int(port)) pair, or no match
LockServerStrings == {"localhost:5555", "localhost"}

ParseLockServer(str) ==
    CASE str = "localhost:5555" -> <<"localhost", 5555>>
      [] OTHER                  -> NoServer

\* populate: `if child.endswith(os.sep): child = child[:-1]`
TrimSep(child) ==
    IF Len(child) > 0 /\ child[Len(child)] = "" THEN SubSeq(child, 1, Len(child) - 1)
    ELSE child

\* populate: child_info.get(key, default_val)
DefaultVal(key) ==
    CASE key = "branch" -> "master"
      [] key = "type"   -> "repo"
      [] OTHER          -> None

PopulateEntry(child_info) ==
    [f \in FieldSet |-> IF f \in DOMAIN child_info THEN child_info[f] ELSE DefaultVal(f)]

HasKey(raw, k) == k \in DOMAIN raw

RawRepos(raw) == IF HasKey(raw, "repos") THEN raw["repos"] ELSE << >>

\* populate: the exceptions it raises on a raw manifest
PopulateErrors(raw) ==
    LET repos == RawRepos(raw)
    IN  {e \in {"lock_server", "duplicate", "mystery_keys", "missing_url"} :
           \/ e = "lock_server" /\ HasKey(raw, "lock_server")
                /\ ParseLockServer(raw["lock_server"]) = NoServer
           \/ e = "duplicate"
                /\ \E c, d \in DOMAIN repos : c # d /\ TrimSep(c) = TrimSep(d)
           \/ e = "mystery_keys"
                /\ \E c \in DOMAIN repos : DOMAIN repos[c] \ FieldSet # {}
           \/ e = "missing_url"
                /\ \E c \in DOMAIN repos :
                      /\ PopulateEntry(repos[c])["url"] = None
                      /\ PopulateEntry(repos[c])["type"] = "repo"}

\* populate on a raw manifest that raises nothing: the Manifest it builds
populate(raw) ==
    LET repos == RawRepos(raw)
        keys  == {TrimSep(c) : c \in DOMAIN repos}
    IN  [repos       |-> [k \in keys |->
                            PopulateEntry(repos[CHOOSE c \in DOMAIN repos : TrimSep(c) = k])],
         lock_server |-> IF HasKey(raw, "lock_server")
                         THEN ParseLockServer(raw["lock_server"]) ELSE NoServer,
         post_clone  |-> IF HasKey(raw, "post_clone") THEN raw["post_clone"] ELSE <<>>,
         post_pull   |-> IF HasKey(raw, "post_pull") THEN raw["post_pull"] ELSE <<>>]

(***************************************************************************)
(* Manifest store: a file is read, the Manifest edited, written, read back *)
(***************************************************************************)
\* an optional key of a file: <<>> when the key is absent, <<v>> when it holds v
Absent == <<>>

\* the raw manifest with the given optional top-level keys
RawManifest(ls, pc, pp, rp) ==
    [k \in {x \in {"lock_server", "post_clone", "post_pull", "repos"} :
              \/ x = "lock_server" /\ ls # Absent
              \/ x = "post_clone" /\ pc # Absent
              \/ x = "post_pull" /\ pp # Absent
              \/ x = "repos" /\ rp # Absent} |->
        CASE k = "lock_server" -> ls[1]
          [] k = "post_clone"  -> pc[1]
          [] k = "post_pull"   -> pp[1]
          [] OTHER             -> rp[1]]

\* bounds of the manifest-store model: the child keys and the entries a
\* hand-written file may hold, and the hook lists
FileChildKeys == {<<"sub">>, <<"sub", "">>}

FileEntries ==
    { [url |-> "u1"],
      [url |-> "u1", branch |-> "dev"],
      [url |-> "u1", commit |-> "c1"],
      [link |-> "l1", type |-> "overlay"],
      [branch |-> "dev"],
      [url |-> "u1", colour |-> "red"] }

HookLists == {<<"make">>}

FileRepos == UNION {[D -> FileEntries] : D \in SUBSET FileChildKeys}

RawManifests ==
    {RawManifest(ls, pc, pp, rp) :
        ls \in {Absent} \cup {<<x>> : x \in LockServerStrings},
        pc \in {Absent} \cup {<<h>> : h \in HookLists},
        pp \in {Absent} \cup {<<h>> : h \in HookLists},
        rp \in {Absent} \cup {<<r>> : r \in FileRepos}}

\* the entries `new` and `link --overlay` put into a Manifest (new, link)
MemoryEntries ==
    { [NewRepo EXCEPT !["url"] = "u2", !["branch"] = "master"],
      [NewRepo EXCEPT !["url"] = "u2", !["branch"] = "master", !["commit"] = "c1"],
      [NewRepo EXCEPT !["type"] = "overlay", !["link"] = "l1"] }

MemoryChildKeys == {<<"lib">>}

ManifestInit ==
    /\ gitp_manifest \in RawManifests
    /\ manifest = EmptyManifest
    /\ written = EmptyManifest
    /\ mstage = "file"

\* Manifest.read: the file parses (populate) or populate raises
Read ==
    /\ mstage = "file"
    /\ IF PopulateErrors(gitp_manifest) = {}
       THEN manifest' = populate(gitp_manifest) /\ mstage' = "loaded"
       ELSE manifest' = manifest /\ mstage' = "error"
    /\ UNCHANGED <<gitp_manifest, written>>
    /\ UNCHANGED notManifest

\* Manifest.__setitem__
SetItem(child, child_info) ==
    /\ mstage = "loaded"
    /\ child \notin DOMAIN manifest.repos
    /\ manifest' = [manifest EXCEPT !.repos =
                      [c \in DOMAIN manifest.repos \cup {child} |->
                          IF c = child THEN child_info ELSE manifest.repos[c]]]
    /\ UNCHANGED <<gitp_manifest, mstage, written>>
    /\ UNCHANGED notManifest

\* Manifest.pop
Pop(child) ==
    /\ mstage = "loaded"
    /\ child \in DOMAIN manifest.repos
    /\ manifest' = [manifest EXCEPT !.repos =
                      [c \in DOMAIN manifest.repos \ {child} |-> manifest.repos[c]]]
    /\ UNCHANGED <<gitp_manifest, mstage, written>>
    /\ UNCHANGED notManifest

\* Manifest.write: the file becomes yaml.dump(as_dict())
Write ==
    /\ mstage = "loaded"
    /\ gitp_manifest' = as_dict(manifest)
    /\ written' = manifest
    /\ mstage' = "written"
    /\ UNCHANGED manifest
    /\ UNCHANGED notManifest

\* get_manifest after the file's mtime changed: the file is parsed again
Reread ==
    /\ mstage = "written"
    /\ IF PopulateErrors(gitp_manifest) = {}
       THEN manifest' = populate(gitp_manifest) /\ mstage' = "reloaded"
       ELSE manifest' = manifest /\ mstage' = "error"
    /\ UNCHANGED <<gitp_manifest, written>>
    /\ UNCHANGED notManifest

ManifestNext ==
    \/ Read
    \/ \E child \in MemoryChildKeys, child_info \in MemoryEntries : SetItem(child, child_info)
    \/ \E child \in MemoryChildKeys \cup {TrimSep(k) : k \in FileChildKeys} : Pop(child)
    \/ Write
    \/ Reread

(***************************************************************************)
(* STASH STACK  (gitp.py 1018-1207)                                        *)
(*                                                                         *)
(* The tree is a top-level repo and its materialized children, visited in  *)
(* depth-first order by stash.work.  '.gitp_stashes' is already registered *)
(* in the top-level .gitignore, so gitignore_add(check_exists=True) leaves *)
(* the tree alone.  A line of the file is the record of its four parts:    *)
(*   stash@{pos}: On branch: __gitp<id> <message>                          *)
(***************************************************************************)
\* bounds of the stash model
MaxStack     == 2         \* pushes are made while the file has fewer lines
MaxTime      == 2         \* the clock values a push may see
MaxGitStash  == 2         \* pushes are made while each repo's git stash list is shorter
StashRepos   == <<"top", "child">>       \* the repos, in depth-first order
StashFiles   == {"f1"}                   \* tracked files a user may touch
StashMessages == {"wip"}                 \* -m arguments

StashRepoSet == Range(StashRepos)

\* a rewrite that keeps the positions the lines were read with
keep_stash_pos(lines) == lines

\* update_stash_pos: renumber the lines so that line i holds stash@{i}
update_stash_pos(lines) ==
    [i \in 1..Len(lines) |-> [lines[i] EXCEPT !.pos = i - 1]]

\* stash, push branch: the timestamp, with a counter appended while the id is taken
RECURSIVE TentativeId(_, _, _)
TentativeId(stash_name, reserved_ids, i) ==
    IF <<stash_name, i>> \in reserved_ids
    THEN TentativeId(stash_name, reserved_ids, i + 1)
    ELSE <<stash_name, i>>

FreshId(stash_name, reserved_ids) ==
    IF <<stash_name>> \in reserved_ids THEN TentativeId(stash_name, reserved_ids, 0)
    ELSE <<stash_name>>

\* stash: reserved_ids, the ids of the lines of the file
ReservedIds(lines) == {lines[i].id : i \in 1..Len(lines)}

\* stash: the operating set when no reference is given: the top line only
TopTarget(lines) == IF lines = <<>> THEN <<>> ELSE <<lines[1]>>

\* stash.work, write branch, in one repo: `git stash -m <name>` saves the local
\* modifications, or reports 'No local changes to save'
GitStashSave(name, r, wt, gs) ==
    IF wt[r] = {} THEN [wt |-> wt, gs |-> gs, stashed |-> FALSE]
    ELSE [wt |-> [wt EXCEPT ![r] = {}],
          gs |-> [gs EXCEPT ![r] = <<[msg |-> name, changes |-> wt[r]]>> \o @],
          stashed |-> TRUE]

\* stash.work, write branch, over the tree in depth-first order
RECURSIVE WorkPush(_, _, _, _)
WorkPush(name, repos, wt, gs) ==
    IF repos = <<>> THEN [wt |-> wt, gs |-> gs, stashed |-> FALSE]
    ELSE LET here == GitStashSave(name, Head(repos), wt, gs)
             rest == WorkPush(name, Tail(repos), here.wt, here.gs)
         IN  [wt |-> rest.wt, gs |-> rest.gs, stashed |-> here.stashed \/ rest.stashed]

\* is_gitp_stash(line, gitp_id) on a line of `git stash list`: the message
\* starts with __gitp<id>
IsGitpStash(entry, gitp_id) == entry.msg.id = gitp_id

\* stash.work, read branch, in one repo: the positions of the entries of
\* `git stash list` that carry the id of a target, in list order
RECURSIVE MatchesFrom(_, _, _)
MatchesFrom(gs_r, rd_tgts, i) ==
    IF i > Len(gs_r) THEN <<>>
    ELSE (IF \E t \in 1..Len(rd_tgts) : IsGitpStash(gs_r[i], rd_tgts[t].id)
          THEN <<i>> ELSE <<>>) \o MatchesFrom(gs_r, rd_tgts, i + 1)

Matches(gs_r, rd_tgts) == MatchesFrom(gs_r, rd_tgts, 1)

RemoveAt(seq, i) == SubSeq(seq, 1, i - 1) \o SubSeq(seq, i + 1, Len(seq))

\* `git stash pop stash@{i}` in one repo: refused when there is no such entry
\* or when the entry touches a file that has local modifications, otherwise
\* the changes come back and the entry is dropped
GitStashPop(r, i, wt, gs) ==
    IF i > Len(gs[r]) \/ gs[r][i].changes \cap wt[r] # {}
    THEN [wt |-> wt, gs |-> gs, failed |-> TRUE]
    ELSE [wt |-> [wt EXCEPT ![r] = @ \cup gs[r][i].changes],
          gs |-> [gs EXCEPT ![r] = RemoveAt(@, i)],
          failed |-> FALSE]

\* stash.work, read branch: `for pos in matches`, the positions being those
\* listed before the first pop
RECURSIVE PopMatches(_, _, _, _)
PopMatches(r, matches, wt, gs) ==
    IF matches = <<>> THEN [wt |-> wt, gs |-> gs, failed |-> FALSE]
    ELSE LET here == GitStashPop(r, Head(matches), wt, gs)
         IN  IF here.failed THEN here
             ELSE PopMatches(r, Tail(matches), here.wt, here.gs)

\* stash.work, read branch with op = 'pop', over the tree in depth-first order;
\* a failing git command raises and ends the walk
RECURSIVE WorkPop(_, _, _, _)
WorkPop(rd_tgts, repos, wt, gs) ==
    IF repos = <<>> THEN [wt |-> wt, gs |-> gs, failed |-> FALSE]
    ELSE LET r    == Head(repos)
             here == PopMatches(r, Matches(gs[r], rd_tgts), wt, gs)
         IN  IF here.failed THEN here
             ELSE WorkPop(rd_tgts, Tail(repos), here.wt, here.gs)

\* stash, read branch: the lines whose message is not a target's message
Survivors(lines, tgt_stashes) ==
    SelectSeq(lines, LAMBDA l : \A t \in 1..Len(tgt_stashes) : l.msg # tgt_stashes[t].msg)

\* the message of a stash made with git itself: is_gitp_stash finds no id
UserMsg == [id |-> <<>>, text |-> "mine"]

\* the entries of a git stash list that gitp made
GitpEntries(gs_r) == SelectSeq(gs_r, LAMBDA e : e.msg # UserMsg)

\* no pop or drop has run last
NoStashOp == [op |-> "none"]

StashInit ==
    /\ stash_op = NoStashOp
    /\ worktree = [r \in StashRepoSet |-> {}]
    /\ git_stash = [r \in StashRepoSet |-> <<>>]
    /\ gitp_stashes = <<>>
    /\ stash_raised = FALSE
    /\ stash_phase = "edited"
    /\ pre_worktree = [r \in StashRepoSet |-> {}]
    /\ pre_stashes = <<>>

\* the user modifies a tracked file, or reverts it
EditFile(r, f) ==
    /\ worktree' = [worktree EXCEPT ![r] = IF f \in @ THEN @ \ {f} ELSE @ \cup {f}]
    /\ stash_phase' = "edited"
    /\ stash_op' = NoStashOp
    /\ UNCHANGED <<git_stash, gitp_stashes, stash_raised, pre_worktree, pre_stashes>>
    /\ UNCHANGED notStash

\* the user stashes the modifications of one repo with git itself
\* (git stash push -m mine), before any gitp stash is made there: an entry
\* whose message carries no gitp id
StashUserSave(r) ==
    /\ worktree[r] # {}
    /\ git_stash[r] = <<>>
    /\ worktree' = [worktree EXCEPT ![r] = {}]
    /\ git_stash' = [git_stash EXCEPT ![r] = <<[msg |-> UserMsg, changes |-> worktree[r]]>> \o @]
    /\ stash_phase' = "edited"
    /\ stash_op' = NoStashOp
    /\ UNCHANGED <<gitp_stashes, stash_raised, pre_worktree, pre_stashes>>
    /\ UNCHANGED notStash

\* `gitp stash push -m message` at clock value now
StashPush(now, message) ==
    /\ Len(gitp_stashes) < MaxStack
    /\ \A r \in StashRepoSet : Len(GitpEntries(git_stash[r])) < MaxGitStash
    /\ LET id    == FreshId(now, ReservedIds(gitp_stashes))
           name  == [id |-> id, text |-> message]
           lines == update_stash_pos(
                      <<[pos |-> 0, branch |-> "master", msg |-> name, id |-> id]>>
                      \o gitp_stashes)
           res   == WorkPush(name, StashRepos, worktree, git_stash)
       IN  /\ worktree' = res.wt
           /\ git_stash' = res.gs
           \* nothing stashed anywhere: 'No local changes to save', file not written
           /\ gitp_stashes' = IF res.stashed THEN lines ELSE gitp_stashes
    /\ stash_raised' = FALSE
    /\ stash_phase' = "pushed"
    /\ pre_worktree' = worktree
    /\ pre_stashes' = gitp_stashes
    /\ stash_op' = NoStashOp
    /\ UNCHANGED notStash

\* `gitp stash pop` (no reference)
StashPop ==
    /\ LET tgt_stashes == TopTarget(gitp_stashes)
           res         == WorkPop(tgt_stashes, StashRepos, worktree, git_stash)
           new_lines   == Survivors(gitp_stashes, tgt_stashes)
       IN  IF tgt_stashes = <<>>
           THEN \* 'No stash entries found.'
                /\ UNCHANGED <<worktree, git_stash, gitp_stashes>>
                /\ stash_raised' = FALSE
           ELSE /\ worktree' = res.wt
                /\ git_stash' = res.gs
                /\ IF res.failed
                   THEN gitp_stashes' = gitp_stashes /\ stash_raised' = TRUE
                   ELSE \* the file is opened for writing (truncated); each
                        \* survivor appends the whole list `lines`, on which
                        \* update_stash_pos raises TypeError before anything
                        \* is written
                        /\ gitp_stashes' = <<>>
                        /\ stash_raised' = (new_lines # <<>>)
    /\ stash_phase' = IF stash_phase = "pushed" THEN "popped" ELSE "edited"
    /\ stash_op' = [op |-> "pop", ref |-> <<>>, unknown |-> FALSE,
                    lines |-> gitp_stashes, gs |-> git_stash, wt |-> worktree]
    /\ UNCHANGED <<pre_worktree, pre_stashes>>
    /\ UNCHANGED notStash

\* entry['msg']: the message of a line as the file and `git stash list`
\* print it, word by word
MsgWords(name) == <<"__gitp", name.id, name.text>>

\* stash, 'operate on a specific stack entry'.  A reference typed as
\* stash@{N} is [pos |-> N], any other is [msg |-> its words]:
\*   tgt_stash == entry['msg'] or tgt_stash == 'stash@{' + str(entry['pos']) + '}'
RefMatches(ref, entry) ==
    IF "pos" \in DOMAIN ref THEN entry.pos = ref.pos
    ELSE MsgWords(entry.msg) = ref.msg

\* stash: the operating set.  'clear' takes every line; without a reference
\* the top line is taken; with one, the lines the reference matches
Targets(lines, op, tgt_stash) ==
    IF op = "clear" THEN lines
    ELSE IF tgt_stash = <<>> THEN TopTarget(lines)
    ELSE SelectSeq(lines, LAMBDA l : RefMatches(tgt_stash[1], l))

\* stash: stash_matched after the loop over the lines
StashMatched(lines, tgt_stash) ==
    tgt_stash = <<>> \/ \E i \in 1..Len(lines) : RefMatches(tgt_stash[1], lines[i])

\* the references tried: none, stash@{N}, a message as given to push -m, and
\* the message of a line as `gitp stash list` prints it
StashRefs(lines) ==
    {<<>>} \cup { <<[pos |-> i]>> : i \in 0..MaxStack - 1 }
           \cup { <<[msg |-> <<m>>]>> : m \in StashMessages }
           \cup { <<[msg |-> MsgWords(lines[i].msg)]>> : i \in 1..Len(lines) }

\* `git stash drop stash@{i}` in one repo: refused when there is no such entry
GitStashDrop(r, i, wt, gs) ==
    IF i > Len(gs[r])
    THEN [wt |-> wt, gs |-> gs, failed |-> TRUE]
    ELSE [wt |-> wt, gs |-> [gs EXCEPT ![r] = RemoveAt(@, i)], failed |-> FALSE]

\* stash.work, read branch with op_str = 'drop': `for pos in matches`, the
\* positions being those listed before the first drop
RECURSIVE DropMatches(_, _, _, _)
DropMatches(r, matches, wt, gs) ==
    IF matches = <<>> THEN [wt |-> wt, gs |-> gs, failed |-> FALSE]
    ELSE LET here == GitStashDrop(r, Head(matches), wt, gs)
         IN  IF here.failed THEN here
             ELSE DropMatches(r, Tail(matches), here.wt, here.gs)

\* stash.work, read branch with op = 'drop' or 'clear', over the tree in
\* depth-first order; a failing git command raises and ends the walk
RECURSIVE WorkDrop(_, _, _, _)
WorkDrop(rd_tgts, repos, wt, gs) ==
    IF repos = <<>> THEN [wt |-> wt, gs |-> gs, failed |-> FALSE]
    ELSE LET r    == Head(repos)
             here == DropMatches(r, Matches(gs[r], rd_tgts), wt, gs)
         IN  IF here.failed THEN here
             ELSE WorkDrop(rd_tgts, Tail(repos), here.wt, here.gs)

\* stash.work, read branch with op = 'branch' and no branch name: the first
\* repo holding a match runs `git stash branch  stash@{pos}`, which git
\* refuses ('stash@{pos}' is not a valid branch name)
WorkBranchFails(rd_tgts, gs) ==
    \E r \in StashRepoSet : Matches(gs[r], rd_tgts) # <<>>

\* stash, read branch, 'Commit change to stashes file': the file is opened for
\* writing (truncated); each survivor appends the whole list `lines`, on which
\* update_stash_pos raises TypeError before anything is written
RewriteStashes(lines, tgt_stashes) ==
    [lines  |-> <<>>,
     raised |-> Survivors(lines, tgt_stashes) # <<>>]

\* `gitp stash drop [stash@{pos}]` and `gitp stash clear`
StashDrop(op, tgt_stash) ==
    /\ op \in {"drop", "clear"}
    /\ op = "clear" => tgt_stash = <<>>
    /\ LET tgt_stashes == Targets(gitp_stashes, op, tgt_stash)
           res         == WorkDrop(tgt_stashes, StashRepos, worktree, git_stash)
           out         == RewriteStashes(gitp_stashes, tgt_stashes)
       IN  IF ~StashMatched(gitp_stashes, tgt_stash)
           THEN \* Unknown stash
                /\ UNCHANGED <<worktree, git_stash, gitp_stashes>>
                /\ stash_raised' = TRUE
           ELSE IF tgt_stashes = <<>>
           THEN \* 'No stash entries found.'
                /\ UNCHANGED <<worktree, git_stash, gitp_stashes>>
                /\ stash_raised' = FALSE
           ELSE /\ worktree' = res.wt
                /\ git_stash' = res.gs
                /\ IF res.failed
                   THEN gitp_stashes' = gitp_stashes /\ stash_raised' = TRUE
                   ELSE gitp_stashes' = out.lines /\ stash_raised' = out.raised
    /\ stash_phase' = IF op = "clear" THEN "cleared" ELSE "dropped"
    /\ stash_op' = [op |-> op, ref |-> tgt_stash,
                    unknown |-> ~StashMatched(gitp_stashes, tgt_stash),
                    lines |-> gitp_stashes, gs |-> git_stash, wt |-> worktree]
    /\ UNCHANGED <<pre_worktree, pre_stashes>>
    /\ UNCHANGED notStash

\* `gitp stash branch` followed by nrevs words.  One word is read as a stash
\* reference, which no message equals; two words set tgt_stash to the list [1],
\* which no line matches
StashBranch(nrevs) ==
    /\ LET tgt_stashes == TopTarget(gitp_stashes)
           out         == RewriteStashes(gitp_stashes, tgt_stashes)
       IN  IF nrevs > 0
           THEN \* Unknown stash
                /\ gitp_stashes' = gitp_stashes
                /\ stash_raised' = TRUE
           ELSE IF tgt_stashes = <<>>
           THEN \* 'No stash entries found.'
                /\ gitp_stashes' = gitp_stashes
                /\ stash_raised' = FALSE
           ELSE IF WorkBranchFails(tgt_stashes, git_stash)
           THEN gitp_stashes' = gitp_stashes /\ stash_raised' = TRUE
           ELSE gitp_stashes' = out.lines /\ stash_raised' = out.raised
    /\ stash_phase' = "branched"
    /\ stash_op' = NoStashOp
    /\ UNCHANGED <<worktree, git_stash, pre_worktree, pre_stashes>>
    /\ UNCHANGED notStash

StashNext ==
    \/ \E r \in StashRepoSet, f \in StashFiles : EditFile(r, f)
    \/ \E r \in StashRepoSet : StashUserSave(r)
    \/ \E now \in 1..MaxTime, message \in StashMessages : StashPush(now, message)
    \/ StashPop
    \/ \E tgt_stash \in StashRefs(gitp_stashes) : StashDrop("drop", tgt_stash)
    \/ StashDrop("clear", <<>>)
    \/ \E nrevs \in 0..2 : StashBranch(nrevs)

(***************************************************************************)
(* WORKING TREES                                                           *)
(*                                                                         *)
(* A path is the sequence of its names below the work area (<<>>).  disk   *)
(* maps every path that exists to what is there: a plain directory, the    *)
(* root of a git working tree (with its branch, HEAD, remote URL, local    *)
(* changes, .gitp_manifest and .gitignore) or a symlink.                   *)
(* Strings that the code takes apart (names, link texts) come with tables  *)
(* that say how they relate.                                               *)
(***************************************************************************)
\* every name used below the work area, in string order
NameOrder ==
    <<"..", "L", "L.copy", "child", "child1", "child2", "gchild", "gchild1",
      "gchild2", "ggchild", "intermediate", "lib", "sub", "subsub", "subsub2", "top">>

NameRank(n) == CHOOSE i \in 1..Len(NameOrder) : NameOrder[i] = n

\* the pairs <<a, b>> of different names where string a starts with string b
ProperNamePrefixes ==
    { <<"L.copy", "L">>, <<"child1", "child">>, <<"child2", "child">>,
      <<"gchild1", "gchild">>, <<"gchild2", "gchild">>,
      <<"subsub", "sub">>, <<"subsub2", "sub">>, <<"subsub2", "subsub">> }

NameStartsWith(a, b) == b = "" \/ a = b \/ <<a, b>> \in ProperNamePrefixes

\* os.path.dirname, os.path.basename, os.path.join
DirName(p) == IF p = <<>> THEN <<>> ELSE SubSeq(p, 1, Len(p) - 1)
BaseName(p) == p[Len(p)]
Join(p, q) == p \o q

\* p is q or an ancestor of q
IsPrefix(p, q) == Len(p) <= Len(q) /\ SubSeq(q, 1, Len(p)) = p

\* str.startswith on two paths written with separators: x.startswith(p)
StartsWith(x, p) ==
    \/ p = <<>>
    \/ /\ Len(x) >= Len(p)
       /\ \A i \in 1..(Len(p) - 1) : x[i] = p[i]
       /\ NameStartsWith(x[Len(p)], p[Len(p)])

\* string order of two paths written with separators
RECURSIVE PathLess(_, _)
PathLess(x, y) ==
    IF x = <<>> THEN y # <<>>
    ELSE IF y = <<>> THEN FALSE
    ELSE IF Head(x) = Head(y) THEN PathLess(Tail(x), Tail(y))
    ELSE NameRank(Head(x)) < NameRank(Head(y))

\* the keys of a manifest in the order yaml.dump writes them (sorted)
RECURSIVE SortedKeys(_)
SortedKeys(S) ==
    IF S = {} THEN <<>>
    ELSE LET k == CHOOSE x \in S : \A y \in S \ {x} : PathLess(x, y)
         IN  <<k>> \o SortedKeys(S \ {k})

\* os.path.normpath: '..' steps back, '.' stays
RECURSIVE NormOnto(_, _)
NormOnto(done, rest) ==
    IF rest = <<>> THEN done
    ELSE IF Head(rest) = ".." THEN NormOnto(DirName(done), Tail(rest))
    ELSE IF Head(rest) = "." THEN NormOnto(done, Tail(rest))
    ELSE NormOnto(Append(done, Head(rest)), Tail(rest))

NormPath(p) == NormOnto(<<>>, p)

\* os.path.relpath(p, start) for two normalized paths
RECURSIVE RelPath(_, _)
RelPath(p, start) ==
    IF start = <<>> THEN p
    ELSE IF p # <<>> /\ Head(p) = Head(start) THEN RelPath(Tail(p), Tail(start))
    ELSE [i \in 1..Len(start) |-> ".."] \o p

\* the relative link texts in use and the paths they spell
LinkTexts ==
    { [text |-> "child2/gchild2",    path |-> <<"child2", "gchild2">>],
      [text |-> "../child2/gchild2", path |-> <<"..", "child2", "gchild2">>],
      [text |-> "child2",            path |-> <<"child2">>],
      [text |-> "../child2",         path |-> <<"..", "child2">>],
      [text |-> "gchild2",           path |-> <<"gchild2">>],
      [text |-> "../gchild2",        path |-> <<"..", "gchild2">>],
      [text |-> "child2/child1/gchild1",    path |-> <<"child2", "child1", "gchild1">>],
      [text |-> "../child2/child1/gchild1", path |-> <<"..", "child2", "child1", "gchild1">>],
      [text |-> "sub",               path |-> <<"sub">>],
      [text |-> "./sub",             path |-> <<".", "sub">>],
      [text |-> "builds",            path |-> <<"builds">>] }

TextPath(text) == (CHOOSE r \in LinkTexts : r.text = text).path
PathText(path) == (CHOOSE r \in LinkTexts : r.path = path).text

\* what a path holds
PlainDir == [kind |-> "dir", link |-> None, url |-> None, branch |-> None,
             commit |-> None, changes |-> FALSE, stashed |-> FALSE, ahead |-> FALSE,
             manifest |-> <<>>, gitignore |-> <<>>]

SymLink(text) == [PlainDir EXCEPT !.kind = "link", !.link = text]

\* the tip commit of a branch (every repository here has the same two branches)
Branches == {"master", "dev"}
Tip(branch) == IF branch = "master" THEN "c_master" ELSE "c_dev"

\* os.path.realpath: symlinks on the way are followed
RECURSIVE RealOnto(_, _, _)
RealOnto(d, done, rest) ==
    IF rest = <<>> THEN done
    ELSE LET q == Append(done, Head(rest))
         IN  IF q \in DOMAIN d /\ d[q].kind = "link"
             THEN RealOnto(d, <<>>, NormPath(done \o TextPath(d[q].link)) \o Tail(rest))
             ELSE RealOnto(d, q, Tail(rest))

RealPath(d, p) == RealOnto(d, <<>>, p)

\* os.path.islink, os.readlink: the last name is not followed
LinkPath(d, p) == IF p = <<>> THEN p ELSE Append(RealPath(d, DirName(p)), BaseName(p))
IsLink(d, p) == LinkPath(d, p) \in DOMAIN d /\ d[LinkPath(d, p)].kind = "link"
ReadLink(d, p) == d[LinkPath(d, p)].link

\* os.path.exists, os.path.isdir, os.listdir
Exists(d, p) == RealPath(d, p) \in DOMAIN d
IsDir(d, p) == Exists(d, p) /\ d[RealPath(d, p)].kind \in {"dir", "repo"}
IsRepo(d, p) == Exists(d, p) /\ d[RealPath(d, p)].kind = "repo"
ListDirEmpty(d, p) ==
    /\ d[RealPath(d, p)].kind = "dir"
    /\ ~ \E q \in DOMAIN d : DirName(q) = RealPath(d, p) /\ q # <<>>

\* is_real_dir
is_real_dir(d, p) == IsDir(d, p) /\ ~IsLink(d, p)

\* shutil.rmtree, os.unlink, os.symlink, os.makedirs
RmTree(d, p) == [q \in {x \in DOMAIN d : ~IsPrefix(LinkPath(d, p), x)} |-> d[q]]
Unlink(d, p) == [q \in DOMAIN d \ {LinkPath(d, p)} |-> d[q]]
Put(d, p, node) == [q \in DOMAIN d \cup {p} |-> IF q = p THEN node ELSE d[q]]
MakeSymlink(d, p, text) == Put(d, LinkPath(d, p), SymLink(text))

RECURSIVE MakeDirs(_, _)
MakeDirs(d, p) ==
    IF Exists(d, p) \/ p = <<>> THEN d
    ELSE With(MakeDirs(d, DirName(p)), LAMBDA above : Put(above, LinkPath(above, p), PlainDir))

\* get_repo_root(cwd): `git rev-parse --show-toplevel`; <<>> stands for failure
\* (cwd does not exist or is not inside a working tree)
RECURSIVE EnclosingRepo(_, _)
EnclosingRepo(d, q) ==
    IF q \in DOMAIN d /\ d[q].kind = "repo" THEN q
    ELSE IF q = <<>> THEN <<>>
    ELSE EnclosingRepo(d, DirName(q))

get_repo_root(d, cwd) == IF IsDir(d, cwd) THEN EnclosingRepo(d, RealPath(d, cwd)) ELSE <<>>

\* get_current_branch, get_current_commit, `git stash list`, in directory p
get_current_branch(d, p) == d[get_repo_root(d, p)].branch
get_current_commit(d, p) == d[get_repo_root(d, p)].commit

\* the .gitp_manifest of directory root as a Manifest, in a one-element
\* sequence; <<>> when there is no such file (get_manifest returns None)
ManifestAt(d, root) ==
    IF Exists(d, root) /\ d[RealPath(d, root)].manifest # <<>>
    THEN <<populate(d[RealPath(d, root)].manifest[1])>>
    ELSE <<>>

\* get_manifest(root, create=True): the empty file it creates when root is
\* the root of a working tree that has no manifest yet
get_manifest_create(d, root) ==
    IF ManifestAt(d, root) = <<>> /\ get_repo_root(d, root) # <<>>
       /\ get_repo_root(d, root) = root
    THEN [d EXCEPT ![root].manifest = << <<>> >>]
    ELSE d

\* get_manifest(root, create=True) raises when root lies inside a working
\* tree without being its root
get_manifest_raises(d, root) ==
    ManifestAt(d, root) = <<>> /\ get_repo_root(d, root) \notin {<<>>, root}

\* Manifest.write on the manifest of directory root
WriteManifest(d, root, mf) == [d EXCEPT ![RealPath(d, root)].manifest = <<as_dict(mf)>>]

\* Manifest.__setitem__, Manifest.pop on the object
SetEntry(mf, child, child_info) ==
    [mf EXCEPT !.repos = [c \in DOMAIN mf.repos \cup {child} |->
                             IF c = child THEN child_info ELSE mf.repos[c]]]

PopEntry(mf, child) ==
    [mf EXCEPT !.repos = [c \in DOMAIN mf.repos \ {child} |-> mf.repos[c]]]

\* Manifest.__iter__: the child keys, in file order
ChildKeys(mf) == SortedKeys(DOMAIN mf.repos)

\* Manifest.get_overlays of the manifest of directory root: the overlay
\* entries, keyed by the path of their target
get_overlays(mf, root) ==
    [p \in {Join(root, c) : c \in {k \in DOMAIN mf.repos : mf.repos[k]["type"] = "overlay"}} |->
        mf.repos[CHOOSE k \in DOMAIN mf.repos : Join(root, k) = p]]

\* check_for_changes: the repos at and below root that report local changes
RECURSIVE check_for_changes(_, _, _)
check_for_changes(d, root, recurse) ==
    IF ~IsDir(d, root) THEN {}
    ELSE With(get_repo_root(d, root), LAMBDA top :
         With(ManifestAt(d, root), LAMBDA m :
            LET here == IF top # <<>> /\ d[top].changes THEN {root} ELSE {}
            IN  IF m = <<>> \/ ~recurse THEN here
                ELSE here \cup UNION {check_for_changes(d, Join(root, c), TRUE) :
                                        c \in DOMAIN m[1].repos}))

\* `git stash list` in directory p prints something
HasStash(d, p) == get_repo_root(d, p) # <<>> /\ d[get_repo_root(d, p)].stashed

\* RepoState
NONEXISTENT == "NONEXISTENT"
UNALIGNED   == "UNALIGNED"
UNLINKED    == "UNLINKED"
OVERLAYED   == "OVERLAYED"
CLEAN       == "CLEAN"

\* curr_commit.startswith(exp_commit): an entry may pin an abbreviated SHA
CommitStartsWith(curr_commit, exp_commit) ==
    curr_commit = exp_commit \/ <<curr_commit, exp_commit>> \in {<<"c_master", "c_m">>, <<"c_dev", "c_d">>}

\* check_for_state_match, loop body: the tuple recorded for one child entry
\* (state None: the child agrees with its entry)
ChildState(d, path, child_info) ==
    LET info == [branch |-> None, commit |-> None, link |-> None, state |-> None]
    IN  IF child_info.link # None
        THEN IF (~Exists(d, path) \/ ListDirEmpty(d, path)) /\ ~IsLink(d, path)
             THEN [info EXCEPT !.state = NONEXISTENT]
             ELSE IF is_real_dir(d, path) THEN [info EXCEPT !.state = UNLINKED]
             ELSE IF IsLink(d, path) /\ ReadLink(d, path) # child_info.link
             THEN [info EXCEPT !.state = UNALIGNED, !.link = ReadLink(d, path)]
             ELSE info
        ELSE IF ~is_real_dir(d, path) THEN [info EXCEPT !.state = NONEXISTENT]
             ELSE IF ListDirEmpty(d, path) THEN [info EXCEPT !.state = NONEXISTENT]
             ELSE LET curr_branch == get_current_branch(d, path)
                      curr_commit == get_current_commit(d, path)
                      exp_commit  == child_info.commit
                      exp_branch  == IF exp_commit # None THEN None ELSE child_info.branch
                      seen        == [info EXCEPT !.branch = curr_branch, !.commit = curr_commit]
                  IN  IF \/ exp_branch # None /\ curr_branch # exp_branch
                         \/ exp_commit # None /\ ~CommitStartsWith(curr_commit, exp_commit)
                      THEN [seen EXCEPT !.state = UNALIGNED]
                      ELSE seen

\* check_for_state_match: the assignments ans[key] = tuple it makes, in
\* order.  The recursive call passes pfx=child, the child's key in its own
\* parent's manifest, not the path walked so far.
RECURSIVE check_for_state_match(_, _, _, _, _, _)
RECURSIVE StateMatchChildren(_, _, _, _, _, _, _)
StateMatchChildren(d, root, recurse, filter_type, pfx, mf, children) ==
    IF children = <<>> THEN <<>>
    ELSE LET child == Head(children)
             decendent_repo_path == Join(root, child)
             own == With(ChildState(d, decendent_repo_path, mf.repos[child]), LAMBDA info :
                        IF info.state # None /\ (filter_type = {} \/ info.state \in filter_type)
                        THEN <<[key |-> IF pfx # <<>> THEN Join(pfx, child) ELSE child,
                                info |-> info]>>
                        ELSE <<>>)
             below == IF recurse
                      THEN check_for_state_match(d, decendent_repo_path, TRUE, filter_type, <<>>, child)
                      ELSE <<>>
         IN  own \o below \o StateMatchChildren(d, root, recurse, filter_type, pfx, mf, Tail(children))

\* target: <<>> for None, <<child>> for a child key
check_for_state_match(d, root, recurse, filter_type, target, pfx) ==
    With(ManifestAt(d, root), LAMBDA m :
        IF m = <<>> THEN <<>>
        ELSE StateMatchChildren(d, root, recurse, filter_type, pfx, m[1],
                 SelectSeq(ChildKeys(m[1]), LAMBDA c : target = <<>> \/ c = target[1])))

\* the dict the assignments leave: `key in ans`, `ans[key][-1]`
InMismatches(ans, key) == \E i \in 1..Len(ans) : ans[i].key = key

MismatchState(ans, key) ==
    ans[CHOOSE i \in 1..Len(ans) :
            ans[i].key = key /\ \A j \in (i + 1)..Len(ans) : ans[j].key # key].info.state

\* check_for_overlay_state_match(tgt, overlays, overlay_root): `link` is
\* bound only on the symlink branch, so the return statement raises
\* UnboundLocalError for a real directory and for a missing target
check_for_overlay_state_match_raises(d, tgt) == ~IsLink(d, tgt)

\* check_for_overlay_state_match(tgt, overlays, overlay_root): the RepoState
\* it has computed when it reaches the return statement
check_for_overlay_state_match(d, tgt, overlays, overlay_root) ==
    IF is_real_dir(d, tgt) THEN UNLINKED
    ELSE IF IsLink(d, tgt)
         THEN LET curr_link == RelPath(NormPath(Join(DirName(tgt), TextPath(ReadLink(d, tgt)))), overlay_root)
                  link      == RelPath(NormPath(Join(overlay_root, TextPath(overlays[tgt].link))), overlay_root)
              IN  IF curr_link # link THEN UNALIGNED ELSE OVERLAYED
         ELSE NONEXISTENT

\* glob.glob(root + '*'): the paths beside root whose name starts with the
\* name of root (root itself among them, nothing inside root)
GlobStar(d, root) ==
    {p \in DOMAIN d : /\ p # <<>> /\ DirName(p) = DirName(root)
                      /\ NameStartsWith(BaseName(p), BaseName(root))}

\* os.path.isfile: the tree holds directories, working trees and symlinks to
\* them, no regular file
IsFile(d, p) == FALSE

\* list.sort(key=...) sorts the list in place and returns None
ListSort(paths) == None

\* get_latest_subdir(root, regex_str) for a regular expression that compiles:
\* `subdirs` is what list(...).sort(...) returns, and `for subdir in
\* subdirs` raises TypeError on None
get_latest_subdir(d, root, regex_str) ==
    IF ~IsDir(d, root) THEN [raised |-> TRUE, value |-> <<>>]
    ELSE With(ListSort({p \in GlobStar(d, root) : IsFile(d, p)}), LAMBDA subdirs :
             IF subdirs = None THEN [raised |-> TRUE, value |-> <<>>]
             ELSE [raised |-> FALSE, value |-> <<>>])

\* resolve_repo_link(root, entry, fail): the qualified link in a one-element
\* sequence, <<>> for None; with link_newest set the container is handed to
\* get_latest_subdir
resolve_repo_link_raises(d, root, entry, fail) ==
    /\ entry.link_newest # None
    /\ IF ~IsDir(d, NormPath(Join(root, TextPath(entry.link)))) THEN fail
       ELSE get_latest_subdir(d, NormPath(Join(root, TextPath(entry.link))),
                              entry.link_filter).raised

resolve_repo_link(d, root, entry, fail) ==
    IF entry.link_newest # None THEN <<>>
    ELSE <<NormPath(Join(root, TextPath(entry.link)))>>

\* the remote repositories: what each URL serves (its committed manifest)
ChildEntry(url) == [url |-> url, branch |-> "master"]

Remotes ==
    [u \in {"u_top", "u_child", "u_gchild", "u_ggchild", "u_app", "u_kit", "u_mod",
             "u_ws", "u_c1", "u_c2", "u_htop", "u_hkid", "u_deep", "u_mid",
             "u_tgt", "u_nest", "u_nc2", "u_pin"} |->
        CASE u = "u_top"    -> << [repos |-> [c \in {<<"child">>} |-> ChildEntry("u_child")]] >>
          [] u = "u_child"  -> << [repos |-> [c \in {<<"gchild">>} |-> ChildEntry("u_gchild")]] >>
          [] u = "u_gchild" -> << [repos |-> [c \in {<<"ggchild">>} |-> ChildEntry("u_ggchild")]] >>
          [] u = "u_app"    -> << [repos |-> [c \in {<<"child">>} |-> ChildEntry("u_kit")]] >>
          [] u = "u_kit"    -> << [repos |-> [c \in {<<"gchild">>} |-> ChildEntry("u_mod")]] >>
          [] u = "u_mod"    -> << [repos |-> [c \in {<<"intermediate", "ggchild">>} |->
                                                 ChildEntry("u_ggchild")]] >>
          [] u = "u_ws"     -> << [repos |-> [c \in {<<"child1">>, <<"child2">>, <<"lib">>} |->
                                                 CASE c = <<"child1">> -> ChildEntry("u_c1")
                                                   [] c = <<"child2">> -> ChildEntry("u_c2")
                                                   [] OTHER -> [url |-> "u_c2", link |-> "child2"]]] >>
          [] u = "u_c1"     -> << [repos |-> [c \in {<<"gchild1">>} |-> ChildEntry("u_ggchild")]] >>
          [] u = "u_c2"     -> << [repos |-> [c \in {<<"gchild2">>} |-> ChildEntry("u_ggchild")]] >>
          [] u = "u_htop"   -> << [repos |-> [c \in {<<"kid">>} |-> ChildEntry("u_hkid")],
                                   post_clone |-> <<"configure", "build">>,
                                   post_pull |-> <<"rebuild">>] >>
          [] u = "u_hkid"   -> << [repos |-> <<>>,
                                   post_clone |-> <<"configure", "build">>,
                                   post_pull |-> <<"rebuild">>] >>
          [] u = "u_deep"   -> << [repos |-> [c \in {<<"child1">>, <<"child2">>} |->
                                                 IF c = <<"child1">> THEN ChildEntry("u_c1")
                                                 ELSE ChildEntry("u_mid")]] >>
          [] u = "u_mid"    -> << [repos |-> [c \in {<<"child1">>} |-> ChildEntry("u_c1")]] >>
          [] u = "u_tgt"    -> << [repos |-> [c \in {<<"sub">>, <<"subsub">>, <<"subsub2">>, <<"lib">>} |->
                                                 CASE c = <<"sub">> -> ChildEntry("u_c1")
                                                   [] c = <<"subsub2">> -> ChildEntry("u_ggchild")
                                                   [] OTHER -> [url |-> "u_c1", link |-> "sub"]]] >>
          [] u = "u_nest"   -> << [repos |-> [c \in {<<"child2">>} |-> ChildEntry("u_nc2")]] >>
          [] u = "u_nc2"    -> << [repos |-> [c \in {<<"gchild2">>, <<"lib">>} |->
                                                 IF c = <<"gchild2">> THEN ChildEntry("u_ggchild")
                                                 ELSE [type |-> "overlay", link |-> "gchild2"]]] >>
          [] u = "u_pin"    -> << [repos |-> [c \in {<<"child1">>, <<"child2">>} |->
                                                 IF c = <<"child1">>
                                                 THEN [url |-> "u_c1", branch |-> "master", commit |-> "c_old"]
                                                 ELSE [url |-> "u_c2", branch |-> "master", commit |-> "c_m"]]] >>
          [] OTHER          -> <<>>]

\* the committed .gitignore of a remote: `new` has listed every child in it
RemoteIgnore(u) ==
    IF Remotes[u] = <<>> THEN <<>>
    ELSE << <<>> >> \o SortedKeys(DOMAIN Remotes[u][1].repos)

\* the URL that names the local working tree L as a clone source
LocalUrl == "/work/L"

\* a fresh working tree with the given content
Repo(url, branch, mf, ignored) ==
    [PlainDir EXCEPT !.kind = "repo", !.url = url, !.branch = branch,
                     !.commit = Tip(branch), !.manifest = mf, !.gitignore = ignored]

\* `git clone <clone_src> .` in directory dst: the source is a URL
\* ([url |-> u]) or a local directory ([path |-> p]); the clone fails when
\* the source is no repository
CloneFails(d, clone_src) ==
    IF "url" \in DOMAIN clone_src THEN clone_src.url \notin DOMAIN Remotes
    ELSE ~(Exists(d, clone_src.path) /\ d[RealPath(d, clone_src.path)].kind = "repo")

\* the clone has the committed files of its source and, as remote URL, origin
GitClone(d, clone_src, dst, origin) ==
    IF "url" \in DOMAIN clone_src
    THEN Put(d, LinkPath(d, dst),
             Repo(origin, "master", Remotes[clone_src.url], RemoteIgnore(clone_src.url)))
    ELSE LET s == d[RealPath(d, clone_src.path)]
         IN  Put(d, LinkPath(d, dst), Repo(origin, s.branch, s.manifest, s.gitignore))

\* `git checkout <branch>` / `git reset --hard <branch>` in the working tree at dst
GitCheckout(d, dst, branch) == [d EXCEPT ![RealPath(d, dst)].branch = branch,
                                         ![RealPath(d, dst)].commit = Tip(branch)]
GitResetHard(d, dst, branch) == [d EXCEPT ![RealPath(d, dst)].commit = Tip(branch)]

\* hook commands that exit non-zero
FailingCmds == {"false"}

\* a trailing separator of a target shows as a last name ""
EndsWithSep(tgt) == tgt # <<>> /\ tgt[Len(tgt)] = ""

\* pull.work, 'Filter by target': is the node skipped
WorkSkip(top_root, tgt, dst, link, local) ==
    /\ tgt # <<>>
    /\ IF ~EndsWithSep(tgt) /\ ~(link # None /\ local)
       THEN Join(top_root, tgt) # dst
       ELSE dst # Join(top_root, TrimSep(tgt)) /\ ~StartsWith(dst, Join(top_root, tgt))

\* pull.work, 'Process ourselves first' for a node that is not skipped:
\* the disk afterwards, the operation, and whether an exception was raised.
\* c: [top_root, src (a one-element sequence, <<>> for None), local, force]
\* a: [src, dst, parent_path, pm (a one-element sequence, <<>> for None), name]
\* The link branch, once the old directory or link at dst is gone.
WorkSelfLink(c, a, gone, qualified_link, op) ==
    IF c.local
    THEN \* shutil.copytree of the link source
         [d |-> [q \in DOMAIN gone \cup
                     {Join(LinkPath(gone, a.dst), RelPath(x, RealPath(gone, qualified_link))) :
                        x \in {y \in DOMAIN gone : IsPrefix(RealPath(gone, qualified_link), y)}} |->
                   IF q \in DOMAIN gone THEN gone[q]
                   ELSE gone[Join(RealPath(gone, qualified_link),
                                  RelPath(q, LinkPath(gone, a.dst)))]],
          operation |-> op, raised |-> ~IsDir(gone, qualified_link)]
    ELSE [d |-> MakeSymlink(gone, a.dst, PathText(RelPath(qualified_link, a.parent_path))),
          operation |-> op, raised |-> FALSE]

\* The clone/checkout branch, once `git clone` is through.
WorkSelfCheckout(got, dst, branch, commit, operation) ==
    With(get_repo_root(got, dst), LAMBDA top :
        IF top = <<>>
        THEN [d |-> got, operation |-> operation, raised |-> TRUE]
        ELSE [d |-> IF commit # None THEN GitResetHard(got, top, branch)
                    ELSE GitCheckout(got, top, branch),
              operation |-> operation, raised |-> FALSE])

\* The clone/checkout branch, once os.makedirs(dst) is through.
WorkSelfClone(a, made, url, branch, commit, operation, cleanup_dir) ==
    LET dst       == a.dst
        clone_src == IF a.src # <<>> THEN [path |-> a.src[1]] ELSE [url |-> url]
    IN  IF operation = "Cloning" /\ CloneFails(made, clone_src)
        THEN [d |-> IF cleanup_dir THEN RmTree(made, dst) ELSE made,
              operation |-> operation, raised |-> TRUE]
        ELSE WorkSelfCheckout(
                 IF operation = "Cloning"
                 THEN \* 'Clean up remote URL(s)': with a local source the
                      \* clone takes over its remotes
                      GitClone(made, clone_src, dst,
                               IF a.src # <<>> THEN made[RealPath(made, a.src[1])].url ELSE url)
                 ELSE made,
                 dst, branch, commit, operation)

WorkSelf(c, d, a, url, branch, commit, link) ==
    LET dst         == a.dst
        cleanup_dir == ~IsDir(d, dst)
        present     == (is_real_dir(d, dst) /\ ~ListDirEmpty(d, dst)) \/ IsLink(d, dst)
        guarded     == present /\ (commit # None \/ (link # None /\ is_real_dir(d, dst)))
        changes     == check_for_changes(d, dst, TRUE)
        stashed     == link # None /\ HasStash(d, dst)
        entry       == a.pm[1].repos[a.name]
    IN  With(IF present THEN "Pulling" ELSE "Cloning", LAMBDA operation :
        IF guarded /\ (changes # {} \/ stashed) /\ ~c.force
        THEN [d |-> d, operation |-> operation, raised |-> TRUE]
        ELSE IF link # None
        THEN LET qualified_link == resolve_repo_link(d, a.parent_path, entry, ~c.force)
                 op == IF c.local THEN "Copying" ELSE "Linking"
             IN  IF resolve_repo_link_raises(d, a.parent_path, entry, ~c.force)
                 THEN [d |-> d, operation |-> op, raised |-> TRUE]
                 ELSE IF (qualified_link = <<>> \/ ~IsDir(d, qualified_link[1])) /\ ~c.force
                 THEN [d |-> d, operation |-> op, raised |-> TRUE]
                 \* os.path.isdir(None) raises TypeError
                 ELSE IF qualified_link = <<>>
                 THEN [d |-> d, operation |-> op, raised |-> TRUE]
                 ELSE WorkSelfLink(c, a,
                          IF is_real_dir(d, dst) THEN RmTree(d, dst)
                          ELSE IF IsLink(d, dst) THEN Unlink(d, dst) ELSE d,
                          qualified_link[1], op)
        ELSE WorkSelfClone(a,
                 MakeDirs(IF Exists(d, dst) /\ IsLink(d, dst) THEN Unlink(d, dst) ELSE d, dst),
                 url, branch, commit, operation, cleanup_dir))

\* pull.work, 'Execute user-specified commands': the hooks run in list
\* order; each run is recorded with the directory and GITP_PARENT_REPO
RECURSIVE RunHooks(_, _, _)
RunHooks(st, dst, cmds) ==
    IF cmds = <<>> THEN st
    ELSE LET ran1 == [st EXCEPT !.hooks = Append(@, [dir |-> dst, cmd |-> Head(cmds), env |-> st.env])]
         IN  IF Head(cmds) \in FailingCmds THEN [ran1 EXCEPT !.raised = TRUE]
             ELSE RunHooks(ran1, dst, Tail(cmds))

\* pull.work.  st: [d, raised, overlay_entries, env, hooks], threaded
\* through the walk; a: the arguments of one call
RECURSIVE work(_, _, _)
RECURSIVE WorkChildren(_, _, _, _, _)
WorkChildren(c, st, a, m, children) ==
    IF children = <<>> \/ st.raised THEN st
    ELSE LET child == Head(children)
             new_src == IF a.src # <<>> THEN <<Join(a.src[1], child)>> ELSE <<>>
         IN  WorkChildren(c,
                 work(c, st, [src |-> new_src, dst |-> Join(a.dst, child),
                              parent_path |-> a.dst, pm |-> <<m>>, name |-> child]),
                 a, m, Tail(children))

\* pull.work from 'Process children' on; self is what WorkSelf returned,
\* m the manifest the node has by then
WorkBelow(c, st0, a, link, skip, self, m) ==
    IF self.raised THEN [st0 EXCEPT !.d = self.d, !.raised = TRUE]
    ELSE IF m = <<>> THEN [st0 EXCEPT !.d = self.d]
    ELSE
    LET st1 == [st0 EXCEPT !.d = self.d,
                           !.overlay_entries = IF c.top_root = a.dst
                                               THEN get_overlays(m[1], a.dst) ELSE @]
        \* post_pull after a clone, post_clone otherwise
        cmds == IF self.operation = "Cloning" THEN m[1].post_pull ELSE m[1].post_clone
    IN  With(IF link = None THEN WorkChildren(c, st1, a, m[1], ChildKeys(m[1])) ELSE st1,
             LAMBDA st2 : IF st2.raised \/ skip THEN st2 ELSE RunHooks(st2, a.dst, cmds))

work(c, st, a) ==
    IF st.raised THEN st
    ELSE
    LET d      == st.d
        has_pm == a.pm # <<>>
        entry  == a.pm[1].repos[a.name]
        url    == IF has_pm THEN entry.url ELSE d[RealPath(d, a.dst)].url
        branch == IF has_pm THEN entry.branch ELSE get_current_branch(d, a.dst)
        commit == IF has_pm THEN entry.commit ELSE None
        link   == IF has_pm THEN entry.link ELSE None
        st0    == [st EXCEPT !.env = IF c.top_root = a.dst THEN "1" ELSE "0"]
        skip   == WorkSkip(c.top_root, c.tgt, a.dst, link, c.local)
    IN  IF a.dst \in DOMAIN st.overlay_entries /\ ~c.local THEN st0
        ELSE With(IF skip THEN [d |-> d, operation |-> "Skipping", raised |-> FALSE]
                  ELSE WorkSelf(c, d, a, url, branch, commit, link),
                  LAMBDA self : WorkBelow(c, st0, a, link, skip, self, ManifestAt(self.d, a.dst)))

\* apply_overlays(root, overlay_entries, targets, force), run from cwd
RECURSIVE ApplyOverlaysFrom(_, _, _, _, _, _, _)
ApplyOverlaysFrom(st, cwd, root, overlay_entries, targets, force, todo) ==
    IF todo = <<>> \/ st.raised THEN st
    ELSE
    LET d          == st.d
        abspath    == Head(todo)
        child_info == overlay_entries[abspath]
        rest       == Tail(todo)
        qualified  == resolve_repo_link(d, root, child_info, ~force)
        gone       == IF IsLink(d, abspath) THEN Unlink(d, abspath)
                      ELSE IF IsDir(d, abspath) THEN RmTree(d, abspath) ELSE d
    IN  IF targets # <<>> /\ ~ \E i \in 1..Len(targets) : StartsWith(abspath, Join(cwd, targets[i]))
        THEN ApplyOverlaysFrom(st, cwd, root, overlay_entries, targets, force, rest)
        ELSE IF resolve_repo_link_raises(d, root, child_info, ~force) \/ qualified = <<>>
        THEN [st EXCEPT !.raised = TRUE]
        ELSE IF is_real_dir(d, abspath) /\ check_for_changes(d, abspath, TRUE) # {} /\ ~force
        THEN [st EXCEPT !.raised = TRUE]
        \* `git stash list` with a cwd that is not there: FileNotFoundError
        ELSE IF ~IsDir(d, abspath) THEN [st EXCEPT !.raised = TRUE]
        ELSE IF HasStash(d, abspath) /\ ~force THEN [st EXCEPT !.raised = TRUE]
        ELSE ApplyOverlaysFrom(
                 [st EXCEPT !.d = MakeSymlink(gone, abspath,
                                     PathText(RelPath(qualified[1], DirName(abspath))))],
                 cwd, root, overlay_entries, targets, force, rest)

apply_overlays(st, cwd, root, overlay_entries, targets, force) ==
    ApplyOverlaysFrom(st, cwd, root, overlay_entries, targets, force,
                      SortedKeys(DOMAIN overlay_entries))

\* pull(root=..., src, --target, --local, --force), run from cwd.
\* Without a lock_server in the manifest the walk runs directly; with one it
\* runs once the lock is granted.
pull(d, cwd, root, src, target, local, force) ==
    With(get_repo_root(d, root), LAMBDA top_root :
    LET c  == [top_root |-> top_root, tgt |-> target, local |-> local, force |-> force]
        st == [d |-> d, raised |-> FALSE, overlay_entries |-> <<>>, env |-> "", hooks |-> <<>>]
    IN  IF top_root = <<>> \/ IsLink(d, root) THEN [st EXCEPT !.raised = TRUE]
        ELSE IF check_for_state_match(d, Join(top_root, TrimSep(target)), TRUE, {UNALIGNED}, <<>>, <<>>) # <<>>
        THEN [st EXCEPT !.raised = TRUE]
        ELSE With(work(c, st, [src |-> src, dst |-> top_root,
                               parent_path |-> DirName(top_root), pm |-> <<>>,
                               name |-> <<>>]),
                  LAMBDA walked :
                      IF walked.raised \/ local THEN walked
                      ELSE apply_overlays(walked, cwd, top_root, walked.overlay_entries,
                                          IF target # <<>> THEN <<target>> ELSE <<>>, force)))

\* what a command leaves: the disk and whether it raised
Outcome(st) == [d |-> st.d, raised |-> st.raised]

\* sync.do_sync, 'Sync current repo' for a target that is a mismatch and no
\* overlay target; d is the disk once the parent manifest parent_m is read
DoSyncSelf(d, cwd, abs_tgt, repo_root, parent_m, child, state, top_root, force) ==
    IF child \notin DOMAIN parent_m.repos
    THEN [d |-> d, raised |-> TRUE]
    ELSE
    LET entry == parent_m.repos[child]
    IN  IF state = NONEXISTENT /\ entry.link = None
        THEN Outcome(pull(d, cwd, repo_root, <<>>, child, FALSE, FALSE))
        ELSE IF state = UNALIGNED \/ entry.link # None
        THEN IF entry.link # None
             THEN LET base == IF entry["type"] = "overlay" THEN top_root ELSE repo_root
                      link == resolve_repo_link(d, base, entry, ~force)
                      off  == IF IsLink(d, abs_tgt) THEN Unlink(d, abs_tgt) ELSE d
                  IN  IF resolve_repo_link_raises(d, base, entry, ~force)
                      THEN [d |-> d, raised |-> TRUE]
                      ELSE IF link = <<>> \/ (~IsDir(d, link[1]) /\ ~force)
                      THEN [d |-> d, raised |-> TRUE]
                      ELSE IF is_real_dir(off, abs_tgt) THEN [d |-> off, raised |-> FALSE]
                      ELSE [d |-> MakeSymlink(off, Join(repo_root, child),
                                       PathText(RelPath(link[1], repo_root))),
                            raised |-> FALSE]
             ELSE \* `git fetch`, `git checkout <commit or branch>` in tgt
                  With(get_repo_root(d, abs_tgt), LAMBDA top :
                      IF top = <<>> THEN [d |-> d, raised |-> TRUE]
                      ELSE IF entry.commit # None
                      THEN [d |-> [d EXCEPT ![top].branch = "", ![top].commit = entry.commit],
                            raised |-> FALSE]
                      ELSE [d |-> GitCheckout(d, top, entry.branch), raised |-> FALSE])
        ELSE [d |-> d, raised |-> FALSE]

\* sync.do_sync for one target.  st: [d, raised]; the child manifest m is
\* read before the target is synced.
RECURSIVE do_sync(_, _, _, _, _, _, _)
RECURSIVE DoSyncEach(_, _, _, _, _, _, _)
DoSyncEach(st, cwd, tgts, overlays, mismatches, top_root, force) ==
    IF tgts = <<>> \/ st.raised THEN st
    ELSE DoSyncEach(do_sync(st, cwd, Head(tgts), overlays, mismatches, top_root, force),
                    cwd, Tail(tgts), overlays, mismatches, top_root, force)

\* sync.do_sync, 'Sync children': synced is what syncing the target left
DoSyncBelow(synced, m, cwd, tgt, overlays, mismatches, top_root, force) ==
    IF synced.raised \/ m = <<>> THEN synced
    ELSE DoSyncEach(synced, cwd,
                    [i \in 1..Len(ChildKeys(m[1])) |-> Join(tgt, ChildKeys(m[1])[i])],
                    overlays, mismatches, top_root, force)

\* sync.do_sync once get_parent_manifest is through
DoSyncIn(d, cwd, tgt, repo_root, overlays, mismatches, top_root, force) ==
    LET abs_tgt         == Join(cwd, tgt)
        child           == RelPath(abs_tgt, repo_root)
        child_qualified == RelPath(abs_tgt, top_root)
    IN  DoSyncBelow(
            IF InMismatches(mismatches, child_qualified)
               /\ Join(cwd, child_qualified) \notin DOMAIN overlays
            THEN DoSyncSelf(d, cwd, abs_tgt, repo_root, ManifestAt(d, repo_root)[1], child,
                            MismatchState(mismatches, child_qualified), top_root, force)
            ELSE [d |-> d, raised |-> FALSE],
            ManifestAt(d, abs_tgt), cwd, tgt, overlays, mismatches, top_root, force)

do_sync(st, cwd, tgt, overlays, mismatches, top_root, force) ==
    IF st.raised THEN st
    ELSE With(get_repo_root(st.d, DirName(Join(cwd, tgt))), LAMBDA repo_root :
        \* get_parent_manifest returned None: parent_m.path raises AttributeError
        IF repo_root = <<>> \/ get_manifest_raises(st.d, repo_root)
        THEN [st EXCEPT !.raised = TRUE]
        \* get_parent_manifest: get_manifest(parent_root) creates a missing file
        ELSE DoSyncIn(get_manifest_create(st.d, repo_root), cwd, tgt, repo_root,
                      overlays, mismatches, top_root, force))

\* sync, from 'Sync targets' on
SyncTargets(d, cwd, repo_root, m, mismatches, tgt_args, force) ==
    LET tgts       == IF tgt_args = <<>> THEN ChildKeys(m) ELSE tgt_args
        outside(tgt) == ~StartsWith(Join(cwd, tgt), repo_root)
        blocked(tgt) ==
            /\ ~force
            /\ check_for_changes(d, Join(cwd, tgt), TRUE) # {}
            /\ \E i \in 1..Len(mismatches) :
                  /\ StartsWith(mismatches[i].key, RelPath(Join(cwd, tgt), repo_root))
                  /\ MismatchState(mismatches, mismatches[i].key) = UNALIGNED
        overlays   == get_overlays(m, repo_root)
    IN  IF \E i \in 1..Len(tgts) : outside(tgts[i]) \/ blocked(tgts[i])
        THEN [d |-> d, raised |-> TRUE]
        ELSE With(DoSyncEach([d |-> d, raised |-> FALSE], cwd, tgts, overlays,
                             mismatches, repo_root, force),
                  LAMBDA synced :
                      IF synced.raised THEN synced
                      ELSE Outcome(apply_overlays(synced, cwd, repo_root, overlays, tgts, force)))

\* the walk of sync once the manifest of the top level is read
SyncIn(d, cwd, repo_root, tgt_args, force) ==
    SyncTargets(d, cwd, repo_root, ManifestAt(d, repo_root)[1],
                check_for_state_match(d, repo_root, TRUE, {}, <<>>, <<>>), tgt_args, force)

\* sync(tgt..., --force), run from cwd: the disk afterwards and whether the
\* command raised
sync(d0, cwd, tgt_args, force) ==
    With(get_repo_root(d0, cwd), LAMBDA repo_root :
        IF repo_root = <<>> THEN [d |-> d0, raised |-> TRUE]
        ELSE SyncIn(get_manifest_create(d0, repo_root), cwd, repo_root, tgt_args, force))

(***************************************************************************)
(* sync on a cloned tree: top -> child -> gchild -> ggchild                *)
(***************************************************************************)
\* the top-level working tree, where the commands are run
Top == <<"top">>

\* a path of the work area with the directories above it
WorkArea == [p \in {<<>>} |-> PlainDir]

\* the declared nodes of the cloned chain, parents first
ChainNodes == << <<"top", "child">>, <<"top", "child", "gchild">>,
                 <<"top", "child", "gchild", "ggchild">> >>

\* the tree `gitp clone u_top top` leaves
ClonedChain ==
    pull(Put(WorkArea, Top, Repo("u_top", "master", Remotes["u_top"], <<>>)),
         Top, Top, <<>>, <<>>, FALSE, TRUE).d

\* history: what last holds after a step of the user
NoCommand == [cmd |-> "user", raised |-> FALSE, arg |-> <<>>, root |-> <<>>, flag |-> FALSE]

SyncInit ==
    /\ disk = ClonedChain
    /\ last = [cmd |-> "clone", raised |-> FALSE]
    /\ before = ClonedChain
    /\ ran = <<>>

\* the user removes the directory of a child (rm -rf)
UserRemove(p) ==
    /\ is_real_dir(disk, p)
    /\ disk' = RmTree(disk, p)
    /\ last' = [cmd |-> "user", raised |-> FALSE]
    /\ UNCHANGED <<before, ran>>
    /\ UNCHANGED notTree

\* the user switches a child to another branch (git checkout)
UserCheckout(p, branch) ==
    /\ IsRepo(disk, p)
    /\ disk[p].branch # branch
    /\ disk' = GitCheckout(disk, p, branch)
    /\ last' = [cmd |-> "user", raised |-> FALSE]
    /\ UNCHANGED <<before, ran>>
    /\ UNCHANGED notTree

\* the user modifies a tracked file of a child, or reverts the modification
UserEdit(p) ==
    /\ IsRepo(disk, p)
    /\ disk' = [disk EXCEPT ![p].changes = ~@]
    /\ last' = [cmd |-> "user", raised |-> FALSE]
    /\ UNCHANGED <<before, ran>>
    /\ UNCHANGED notTree

\* `gitp sync` / `gitp sync --force` at the top level, no targets
Sync(force) ==
    /\ \E res \in {sync(disk, Top, <<>>, force)} :
           /\ disk' = res.d
           /\ last' = [cmd |-> "sync", raised |-> res.raised]
    /\ before' = disk
    /\ UNCHANGED ran
    /\ UNCHANGED notTree

SyncNext ==
    \/ \E p \in Range(ChainNodes) : UserRemove(p)
    \/ \E p \in Range(ChainNodes), branch \in Branches : UserCheckout(p, branch)
    \/ \E p \in Range(ChainNodes) : UserEdit(p)
    \/ \E force \in BOOLEAN : Sync(force)

(***************************************************************************)
(* new and rm                                                              *)
(*                                                                         *)
(* A .gitignore is the sequence of its lines (the text split at newlines;  *)
(* <<>> when there is no file), a line the path it spells, the blank line  *)
(* <<>>.                                                                   *)
(***************************************************************************)
\* str.strip on a line
Strip(line) == IF line = <<"build ">> THEN <<"build">> ELSE line

\* gitignore_add(root, token): '\n' + token is appended, the file created
\* when it is not there
gitignore_add(d, root, token) ==
    [d EXCEPT ![RealPath(d, root)].gitignore =
                  IF @ = <<>> THEN << <<>>, token >> ELSE Append(@, token)]

\* `for line in f`: the text after the last newline is a line unless empty
FileLines(text) ==
    IF text # <<>> /\ text[Len(text)] = <<>> THEN SubSeq(text, 1, Len(text) - 1) ELSE text

\* gitignore_rm(root, token): open(.., 'r') raises when there is no file
gitignore_rm_raises(d, root) == d[RealPath(d, root)].gitignore = <<>>

\* gitignore_rm(root, token): every line is stripped, the lines equal to the
\* token are dropped, the rest is joined with newlines
gitignore_rm(d, root, token) ==
    LET lines       == FileLines(d[RealPath(d, root)].gitignore)
        new_content == SelectSeq([i \in 1..Len(lines) |-> Strip(lines[i])],
                                 LAMBDA line : line # token)
    IN  [d EXCEPT ![RealPath(d, root)].gitignore =
                      IF new_content = <<>> THEN << <<>> >> ELSE new_content]

\* the urls in use that are relative filesystem paths, and
\* args.url.startswith('.')
RelativeUrls == {"../u_rel", "repos/u_rel"}
UrlStartsWithDot(url) == url \in {"../u_rel"}

\* new, 'Handle case wherein a child repo is added from a grandparent or
\* greater': the walk from dst_part upwards.  The disk afterwards, whether an
\* exception was raised, and the root the child is registered in.
RECURSIVE NewLocate(_, _, _, _)
NewLocate(d, root, m, dst_part) ==
    IF dst_part = <<>> THEN [d |-> d, raised |-> FALSE, root |-> root]
    ELSE
    LET create == dst_part \in DOMAIN m.repos
        at     == Join(root, dst_part)
    IN  IF create /\ get_manifest_raises(d, at)
        THEN [d |-> d, raised |-> TRUE, root |-> root]
        ELSE With(IF create THEN get_manifest_create(d, at) ELSE d, LAMBDA d1 :
             With(ManifestAt(d1, at), LAMBDA child_m :
                 IF child_m = <<>> THEN NewLocate(d1, root, m, DirName(dst_part))
                 \* conflicting_children: x.startswith(os.path.dirname(dst_part))
                 ELSE IF \E x \in DOMAIN child_m[1].repos : StartsWith(x, DirName(dst_part))
                 THEN [d |-> d1, raised |-> TRUE, root |-> root]
                 ELSE [d |-> d1, raised |-> FALSE, root |-> at]))

\* new, from 'Don't modify contents accessed via links' on: the entry is
\* written to the manifest and .gitignore of loc.root and the child pulled.
\* pull.work turns a failing git command into an Exception, so the handler
\* for CalledProcessError that would call rm is not entered.
NewRegister(loc, cwd, dst, new_entry) ==
    IF loc.raised THEN loc
    ELSE IF IsLink(loc.d, loc.root) THEN [loc EXCEPT !.raised = TRUE]
    ELSE
    LET new_child == RelPath(Join(cwd, dst), loc.root)
        m         == ManifestAt(loc.d, loc.root)[1]
    IN  With(pull(gitignore_add(WriteManifest(loc.d, loc.root, SetEntry(m, new_child, new_entry)),
                                loc.root, new_child),
                  cwd, loc.root, <<>>, Append(new_child, ""), FALSE, FALSE),
             LAMBDA pulled : [d |-> pulled.d, raised |-> pulled.raised, root |-> loc.root])

\* new(dst, --from url, --branch/--commit/--link), run from cwd
NewChecked(d, cwd, root, m, dst, new_entry) ==
    LET failed == [d |-> d, raised |-> TRUE, root |-> root]
    IN  IF dst \in DOMAIN m.repos THEN failed
        ELSE IF IsDir(d, Join(cwd, dst)) THEN failed
        ELSE IF DirName(dst) # <<>> /\ ~IsDir(d, Join(cwd, DirName(dst))) THEN failed
        ELSE IF UrlStartsWithDot(new_entry.url) THEN failed
        ELSE NewRegister(NewLocate(d, root, m, RelPath(Join(cwd, dst), root)),
                         cwd, dst, new_entry)

new(d0, cwd, dst, new_entry) ==
    With(get_repo_root(d0, cwd), LAMBDA root :
        IF root = <<>> THEN [d |-> d0, raised |-> TRUE, root |-> root]
        ELSE With(get_manifest_create(d0, root), LAMBDA d :
                 NewChecked(d, cwd, root, ManifestAt(d, root)[1], dst, new_entry)))

\* rm, 'Handle case wherein a child repo is deleted from a grandparent or
\* greater': the root whose manifest holds the target
RECURSIVE RmLocate(_, _, _, _)
RmLocate(d, root, abs_tgt, tgt_part) ==
    IF tgt_part = <<>> THEN root
    ELSE With(ManifestAt(d, Join(root, tgt_part)), LAMBDA child_m :
             IF child_m # <<>> /\ RelPath(abs_tgt, Join(root, tgt_part)) \in DOMAIN child_m[1].repos
             THEN Join(root, tgt_part)
             ELSE RmLocate(d, root, abs_tgt, DirName(tgt_part)))

\* rm, 'Update manifest and .gitignore' and 'Remove the directory'
RmRemove(d, root, m, abs_tgt, force) ==
    With(WriteManifest(d, root, PopEntry(m, RelPath(abs_tgt, root))), LAMBDA saved :
        IF gitignore_rm_raises(saved, root)
        THEN [d |-> saved, raised |-> TRUE, root |-> root]
        ELSE With(gitignore_rm(saved, root, RelPath(abs_tgt, root)), LAMBDA cleaned :
                 [d |-> IF ~IsDir(d, abs_tgt) THEN cleaned
                        ELSE IF is_real_dir(cleaned, abs_tgt) THEN RmTree(cleaned, abs_tgt)
                        ELSE IF IsLink(cleaned, abs_tgt) THEN Unlink(cleaned, abs_tgt)
                        ELSE cleaned,
                  raised |-> FALSE, root |-> root]))

\* a removal that does not look for local changes in the child
RmUnchecked(d, root, m, abs_tgt, force) ==
    IF IsLink(d, root) \/ RelPath(abs_tgt, root) \notin DOMAIN m.repos
    THEN [d |-> d, raised |-> TRUE, root |-> root]
    ELSE RmRemove(d, root, m, abs_tgt, force)

\* rm, 'Remove child repo'
RmChild(d, root, m, abs_tgt, force) ==
    LET new_child == RelPath(abs_tgt, root)
        failed    == [d |-> d, raised |-> TRUE, root |-> root]
    IN  IF IsLink(d, root) THEN failed
        \* passthrough: `git rm` of a path that is no tracked file fails
        ELSE IF new_child \notin DOMAIN m.repos THEN failed
        ELSE IF IsDir(d, abs_tgt) /\ ~force /\ check_for_changes(d, abs_tgt, TRUE) # {}
        THEN failed
        ELSE RmRemove(d, root, m, abs_tgt, force)

\* rm(tgt, --force), run from cwd
RmChecked(d, cwd, root, m, tgt, force) ==
    LET abs_tgt   == Join(cwd, tgt)
        new_child == RelPath(abs_tgt, root)
    IN  IF new_child \in DOMAIN m.repos /\ m.repos[new_child]["type"] = "overlay"
        THEN [d |-> d, raised |-> TRUE, root |-> root]
        ELSE With(RmLocate(d, root, abs_tgt, new_child), LAMBDA found :
                 RmChild(d, found, ManifestAt(d, found)[1], abs_tgt, force))

rm(d0, cwd, tgt, force) ==
    With(get_repo_root(d0, cwd), LAMBDA root :
        IF root = <<>> THEN [d |-> d0, raised |-> TRUE, root |-> root]
        ELSE With(get_manifest_create(d0, root), LAMBDA d :
                 RmChecked(d, cwd, root, ManifestAt(d, root)[1], tgt, force)))

(***************************************************************************)
(* new and rm on a cloned tree:                                            *)
(* top -> child -> gchild -> intermediate/ggchild                          *)
(***************************************************************************)
\* the .gitp_manifest of the top level: as cloned, or with the top-level
\* settings added
TopManifests ==
    { Remotes["u_app"][1],
      RawManifest(<<"localhost:5555">>, << <<"make">> >>, << <<"make">> >>,
                  << Remotes["u_app"][1].repos >>) }

\* the .gitignore of the top level: '\nchild', or 'build \nchild\n'
TopIgnores == { << <<>>, <<"child">> >>, << <<"build ">>, <<"child">>, <<>> >> }

\* the tree `gitp clone u_app top` leaves, with the given files at the top
NewTree(mf, ignored) ==
    [pull(Put(WorkArea, Top, Repo("u_app", "master", Remotes["u_app"], RemoteIgnore("u_app"))),
          Top, Top, <<>>, <<>>, FALSE, TRUE).d
        EXCEPT ![Top].manifest = <<mf>>, ![Top].gitignore = ignored]

\* a .gitignore grows with every `new` of a path that a manifest below the
\* top level already holds; the lines a .gitignore may reach
MaxIgnoreLines == 4

\* the arguments tried: destinations, urls (u_none is no repository)
NewDsts == { <<"lib">>, <<"child", "lib">>, <<"child", "gchild", "lib">>,
             <<"child", "gchild", "intermediate">> }
NewUrls == {"u_ggchild", "u_none"} \cup RelativeUrls

\* the directories the user removes, the nodes the user edits
RemovedDirs == {Join(Top, <<"child", "gchild", "intermediate">>)}
EditedNodes == {Join(Top, <<"lib">>)}

\* some manifest entry on disk denotes a path strictly below p
DeclaredBelow(d, p) ==
    \E r \in {q \in DOMAIN d : d[q].manifest # <<>>} :
        \E k \in DOMAIN ManifestAt(d, r)[1].repos :
            IsPrefix(p, Join(r, k)) /\ Join(r, k) # p

NewInit ==
    /\ \E mf \in TopManifests, ignored \in TopIgnores : disk = NewTree(mf, ignored)
    /\ last = [cmd |-> "clone", raised |-> FALSE, arg |-> <<>>, root |-> <<>>, flag |-> FALSE]
    /\ before = disk
    /\ ran = <<>>

\* `gitp new dst --from url` at the top level; flag: an entry below dst exists
New(dst, url) ==
    /\ \A p \in DOMAIN disk : Len(disk[p].gitignore) < MaxIgnoreLines
    /\ \E res \in {new(disk, Top, dst, [NewRepo EXCEPT !["url"] = url, !["branch"] = "master"])} :
           /\ disk' = res.d
           /\ last' = [cmd |-> "new", raised |-> res.raised, arg |-> dst, root |-> res.root,
                       flag |-> DeclaredBelow(disk, Join(Top, dst)), url |-> url]
    /\ before' = disk
    /\ UNCHANGED ran
    /\ UNCHANGED notTree

\* `gitp rm tgt` / `gitp rm --force tgt` at the top level; flag: the command
\* follows a successful `gitp new tgt`, and before stays the tree before that
Rm(tgt, force) ==
    /\ \E res \in {rm(disk, Top, tgt, force)},
          undoes \in {last.cmd = "new" /\ ~last.raised /\ last.arg = tgt} :
           /\ disk' = res.d
           /\ last' = [cmd |-> "rm", raised |-> res.raised, arg |-> tgt, root |-> res.root,
                       flag |-> undoes]
           /\ before' = IF undoes THEN before ELSE disk
    /\ UNCHANGED ran
    /\ UNCHANGED notTree

\* the user removes a directory (rm -rf)
NewUserRemove(p) ==
    /\ is_real_dir(disk, p)
    /\ disk' = RmTree(disk, p)
    /\ last' = NoCommand
    /\ UNCHANGED <<before, ran>>
    /\ UNCHANGED notTree

\* the user modifies a tracked file of a node, or reverts the modification
NewUserEdit(p) ==
    /\ IsRepo(disk, p)
    /\ disk' = [disk EXCEPT ![p].changes = ~@]
    /\ last' = NoCommand
    /\ UNCHANGED <<before, ran>>
    /\ UNCHANGED notTree

NewNext ==
    \/ \E dst \in NewDsts, url \in NewUrls : New(dst, url)
    \/ \E tgt \in NewDsts, force \in BOOLEAN : Rm(tgt, force)
    \/ \E p \in RemovedDirs : NewUserRemove(p)
    \/ \E p \in EditedNodes : NewUserEdit(p)

(***************************************************************************)
(* clone, and pull with a source, from the local tree L:                   *)
(* L -> child -> gchild -> ggchild                                         *)
(***************************************************************************)
\* clone(src, dst), run from cwd.  src is a URL ([url |-> u]) or a local
\* working tree ([path |-> p]); a local working tree is handed to pull as
\* its source.
clone(d, cwd, src, dst) ==
    LET dest_path == Join(cwd, dst)
        local     == "path" \in DOMAIN src
    IN  IF IsDir(d, dest_path) \/ CloneFails(d, src)
        THEN [d |-> d, raised |-> TRUE]
        ELSE Outcome(pull(GitClone(MakeDirs(d, DirName(dest_path)), src, dest_path,
                                   IF local THEN LocalUrl ELSE src.url),
                          cwd, dest_path, IF local THEN <<src.path>> ELSE <<>>,
                          <<>>, FALSE, TRUE))

\* the local source tree and the destination of its copy
LPath == <<"L">>
CopyPath == <<"L.copy">>
LNodes == { <<"L", "child">>, <<"L", "child", "gchild">>, <<"L", "child", "gchild", "ggchild">> }

\* every child declared at and below root is on disk
RECURSIVE SourceComplete(_, _)
SourceComplete(d, root) ==
    LET m == ManifestAt(d, root)
    IN  \/ m = <<>>
        \/ \A c \in DOMAIN m[1].repos :
              /\ ChildState(d, Join(root, c), m[1].repos[c]).state # NONEXISTENT
              /\ SourceComplete(d, Join(root, c))

CloneInit ==
    /\ disk = pull(Put(WorkArea, LPath, Repo("u_top", "master", Remotes["u_top"], RemoteIgnore("u_top"))),
                   LPath, LPath, <<>>, <<>>, FALSE, TRUE).d
    /\ last = NoCommand
    /\ before = disk
    /\ ran = <<>>

\* `gitp clone src L.copy` in the work area; flag: the source is the local
\* tree and a child it declares is not on disk
Clone(src) ==
    /\ \E res \in {clone(disk, <<>>, src, CopyPath)} :
           /\ disk' = res.d
           /\ last' = [cmd |-> "clone", raised |-> res.raised, arg |-> CopyPath, root |-> CopyPath,
                       flag |-> "path" \in DOMAIN src /\ ~SourceComplete(disk, LPath),
                       src |-> src]
    /\ before' = disk
    /\ UNCHANGED ran
    /\ UNCHANGED notTree

\* `gitp pull ../L` in L.copy
PullFrom ==
    /\ IsRepo(disk, CopyPath)
    /\ \E res \in {pull(disk, CopyPath, CopyPath, <<LPath>>, <<>>, FALSE, FALSE)} :
           /\ disk' = res.d
           /\ last' = [cmd |-> "pull", raised |-> res.raised, arg |-> CopyPath, root |-> CopyPath,
                       flag |-> ~SourceComplete(disk, LPath)]
    /\ before' = disk
    /\ UNCHANGED ran
    /\ UNCHANGED notTree

\* `gitp sync` in L
SyncSource ==
    /\ \E res \in {sync(disk, LPath, <<>>, FALSE)} :
           /\ disk' = res.d
           /\ last' = [cmd |-> "sync", raised |-> res.raised, arg |-> LPath, root |-> LPath,
                       flag |-> FALSE]
    /\ before' = disk
    /\ UNCHANGED ran
    /\ UNCHANGED notTree

\* the user removes a node of L, or the copy (rm -rf)
CloneUserRemove(p) ==
    /\ is_real_dir(disk, p)
    /\ disk' = RmTree(disk, p)
    /\ last' = NoCommand
    /\ UNCHANGED <<before, ran>>
    /\ UNCHANGED notTree

\* the user switches a node of L to another branch (git checkout)
CloneUserCheckout(p, branch) ==
    /\ IsRepo(disk, p)
    /\ disk[p].branch # branch
    /\ disk' = GitCheckout(disk, p, branch)
    /\ last' = NoCommand
    /\ UNCHANGED <<before, ran>>
    /\ UNCHANGED notTree

CloneNext ==
    \/ \E src \in {[path |-> LPath], [url |-> "u_top"]} : Clone(src)
    \/ PullFrom
    \/ SyncSource
    \/ \E p \in LNodes \cup {CopyPath} : CloneUserRemove(p)
    \/ \E p \in LNodes, branch \in Branches : CloneUserCheckout(p, branch)

(***************************************************************************)
(* link and exec                                                           *)
(***************************************************************************)
\* link, from 'We create a new entry for overlay' on: the entry is written,
\* the target removed and `sync tgt` run.  m is the manifest of the target's
\* parent, lnk the link source as typed (relative to cwd).
LinkWrite(d, cwd, root, src_parent_root, m, tgt, lnk, link_overlay) ==
    LET child_root   == Join(cwd, tgt)
        child        == RelPath(child_root, src_parent_root)
        overlay_name == RelPath(child_root, root)
        saved ==
            IF link_overlay
            THEN WriteManifest(d, root,
                     SetEntry(ManifestAt(d, root)[1], overlay_name,
                              [NewRepo EXCEPT !["type"] = "overlay", !["link"] = PathText(lnk)]))
            ELSE WriteManifest(d, src_parent_root,
                     SetEntry(m, child,
                              [m.repos[child] EXCEPT
                                   !["type"] = "repo",
                                   !["link"] = PathText(RelPath(Join(cwd, lnk), src_parent_root)),
                                   !["commit"] = None, !["link_newest"] = None,
                                   !["link_filter"] = None]))
    IN  With(saved, LAMBDA d1 :
             sync(IF is_real_dir(d1, child_root) THEN RmTree(d1, child_root)
                  ELSE IF IsLink(d1, child_root) THEN Unlink(d1, child_root) ELSE d1,
                  cwd, <<tgt>>, FALSE))

\* link, the checks before anything is written
LinkChecked(d, cwd, root, src_parent_root, m, tgt, lnk, link_overlay, force) ==
    LET child_root == Join(cwd, tgt)
        child      == RelPath(child_root, src_parent_root)
        abs_link   == Join(cwd, lnk)
        rel_link_boundary == IF link_overlay THEN root ELSE src_parent_root
        failed     == [d |-> d, raised |-> TRUE]
    IN  IF ~StartsWith(src_parent_root, root) THEN failed
        ELSE IF child \notin DOMAIN m.repos THEN failed
        ELSE IF ~force /\ (~IsDir(d, abs_link) \/ ~StartsWith(abs_link, rel_link_boundary))
        THEN failed
        ELSE IF abs_link = child_root THEN failed
        ELSE IF ~force /\ is_real_dir(d, child_root)
                /\ (check_for_changes(d, child_root, TRUE) # {} \/ HasStash(d, child_root))
        THEN failed
        ELSE LinkWrite(d, cwd, root, src_parent_root, m, tgt, lnk, link_overlay)

\* link(tgt, link, --overlay, --force), run from cwd
link(d0, cwd, tgt, lnk, link_overlay, force) ==
    With(get_repo_root(d0, cwd), LAMBDA root :
    With(get_repo_root(d0, Join(cwd, DirName(tgt))), LAMBDA src_parent_root :
        IF root = <<>> \/ src_parent_root = <<>> THEN [d |-> d0, raised |-> TRUE]
        ELSE With(get_manifest_create(d0, src_parent_root), LAMBDA d :
                 LinkChecked(d, cwd, root, src_parent_root, ManifestAt(d, src_parent_root)[1],
                             tgt, lnk, link_overlay, force))))

\* re.search(regex, root) for the filters in use: '.*' is found in every
\* path, a name in the paths that hold a name it is part of
ProperNameParts == { <<"gchild2", "child2">> }

ReSearch(regex, root) ==
    \/ regex = ".*"
    \/ \E i \in 1..Len(root) : root[i] = regex \/ <<root[i], regex>> \in ProperNameParts

\* exec.work.  sel: [tgt, filter, modified] as given; st: [tgt (the targets
\* not matched yet), command_targets (the (root, skip_reason) pairs)]
RECURSIVE ExecWork(_, _, _, _)
RECURSIVE ExecChildren(_, _, _, _, _)
ExecChildren(d, sel, st, root, children) ==
    IF children = <<>> THEN st
    ELSE ExecChildren(d, sel, ExecWork(d, sel, st, Join(root, Head(children))),
                      root, Tail(children))

ExecWork(d, sel, st, root) ==
    LET by_tgt == root \in st.tgt
        added  == IF sel.modified THEN check_for_changes(d, root, FALSE) # {}
                  ELSE by_tgt \/ \E regex \in sel.filter : ReSearch(regex, root)
        skip_reason == added /\ (~Exists(d, root) \/ IsLink(d, root))
    IN  With([tgt |-> IF by_tgt THEN st.tgt \ {root} ELSE st.tgt,
              command_targets |-> IF added
                                  THEN Append(st.command_targets,
                                              [dir |-> root, skip_reason |-> skip_reason])
                                  ELSE st.command_targets],
             LAMBDA st1 :
                 IF skip_reason THEN st1
                 ELSE With(ManifestAt(d, root), LAMBDA m :
                          IF m = <<>> THEN st1
                          ELSE ExecChildren(d, sel, st1, root, ChildKeys(m[1]))))

\* exec(cmd, --target, --filter, --modified), run from cwd, for one command
\* that succeeds: the directories it is run in, in order, and whether exec
\* raised
exec(d, cwd, sel) ==
    With(ExecWork(d, [sel EXCEPT !.filter = IF sel.filter = {} /\ sel.tgt = {} THEN {".*"} ELSE @],
                  [tgt |-> sel.tgt, command_targets |-> <<>>], get_repo_root(d, cwd)),
         LAMBDA walked :
             IF walked.tgt # {} \/ walked.command_targets = <<>>
             THEN [dirs |-> <<>>, raised |-> TRUE]
             ELSE [dirs |-> [i \in 1..Len(SelectSeq(walked.command_targets,
                                                      LAMBDA t : ~t.skip_reason)) |->
                               SelectSeq(walked.command_targets,
                                         LAMBDA t : ~t.skip_reason)[i].dir],
                   raised |-> FALSE])

(***************************************************************************)
(* link --overlay, sync and exec on a cloned workspace:                    *)
(* top -> child1 -> gchild1, top -> child2 -> gchild2, top/lib -> child2   *)
(***************************************************************************)
\* the overlay target and the link source, as typed at the top level
OverlayTgt == <<"child1", "gchild1">>
OverlaySrc == <<"child2", "gchild2">>

\* the tree `gitp clone u_ws top` leaves
Workspace ==
    pull(Put(WorkArea, Top, Repo("u_ws", "master", Remotes["u_ws"], RemoteIgnore("u_ws"))),
         Top, Top, <<>>, <<>>, FALSE, TRUE).d

\* the selections of exec tried: --filter, --target, neither, and --modified
\* alone and with a filter
ExecSelections ==
    { [tgt |-> {}, filter |-> {}, modified |-> FALSE],
      [tgt |-> {}, filter |-> {"child2"}, modified |-> FALSE],
      [tgt |-> {Join(Top, OverlayTgt)}, filter |-> {}, modified |-> FALSE],
      [tgt |-> {}, filter |-> {}, modified |-> TRUE],
      [tgt |-> {}, filter |-> {"child2"}, modified |-> TRUE] }

\* the target is a materialized clean repo and the source a directory inside
\* the tree
LinkInputsValid(d, tgt, lnk) ==
    /\ IsRepo(d, Join(Top, tgt)) /\ is_real_dir(d, Join(Top, tgt))
    /\ check_for_changes(d, Join(Top, tgt), TRUE) = {}
    /\ ~HasStash(d, Join(Top, tgt))
    /\ IsDir(d, Join(Top, lnk))

OverlayInit ==
    /\ disk = Workspace
    /\ last = NoCommand
    /\ before = disk
    /\ ran = <<>>

\* `gitp link [--overlay] child1/gchild1 child2/gchild2` at the top level;
\* flag: --overlay is given and the inputs are valid
Link(link_overlay, force) ==
    /\ \E res \in {link(disk, Top, OverlayTgt, OverlaySrc, link_overlay, force)} :
           /\ disk' = res.d
           /\ last' = [cmd |-> "link", raised |-> res.raised, arg |-> OverlayTgt,
                       root |-> OverlaySrc,
                       flag |-> link_overlay /\ LinkInputsValid(disk, OverlayTgt, OverlaySrc)]
    /\ before' = disk
    /\ UNCHANGED ran
    /\ UNCHANGED notTree

\* `gitp sync` at the top level; flag: it follows a `link --overlay` that
\* succeeded
SyncTop ==
    /\ \E res \in {sync(disk, Top, <<>>, FALSE)} :
           /\ disk' = res.d
           /\ last' = [cmd |-> "sync", raised |-> res.raised, arg |-> last.arg,
                       root |-> last.root,
                       flag |-> last.cmd = "link" /\ last.flag /\ ~last.raised]
    /\ before' = disk
    /\ UNCHANGED ran
    /\ UNCHANGED notTree

\* `gitp exec <cmd>` at the top level with a command that changes nothing
Exec(sel) ==
    /\ \E res \in {exec(disk, Top, sel)} :
           /\ ran' = res.dirs
           /\ last' = [cmd |-> "exec", raised |-> res.raised, arg |-> sel, root |-> Top,
                       flag |-> ~sel.modified]
    /\ before' = disk
    /\ UNCHANGED disk
    /\ UNCHANGED notTree

\* the user clones the overlay target by hand where it is missing
OverlayUserClone ==
    /\ ~Exists(disk, Join(Top, OverlayTgt))
    /\ ~IsLink(disk, Join(Top, OverlayTgt))
    /\ disk' = GitClone(disk, [url |-> "u_ggchild"], Join(Top, OverlayTgt), "u_ggchild")
    /\ last' = NoCommand
    /\ UNCHANGED <<before, ran>>
    /\ UNCHANGED notTree

\* the user modifies a tracked file of a node, or reverts the modification
OverlayUserEdit(p) ==
    /\ IsRepo(disk, p) /\ is_real_dir(disk, p)
    /\ disk' = [disk EXCEPT ![p].changes = ~@]
    /\ last' = NoCommand
    /\ UNCHANGED <<before, ran>>
    /\ UNCHANGED notTree

OverlayNext ==
    \/ \E link_overlay \in BOOLEAN, force \in BOOLEAN : Link(link_overlay, force)
    \/ SyncTop
    \/ \E sel \in ExecSelections : Exec(sel)
    \/ OverlayUserClone
    \/ \E p \in {Join(Top, OverlayTgt), Join(Top, OverlaySrc)} : OverlayUserEdit(p)

(***************************************************************************)
(* HOOKS: `gitp pull` on a tree whose manifests carry post_clone and       *)
(* post_pull commands (pull.work, gitp.py 1455-1475)                       *)
(***************************************************************************)
\* the nodes of the tree, children first (the order their hooks run in)
HookNodes == << <<"top", "kid">>, <<"top">> >>

\* the command lists a user may write into a manifest
PostCloneLists == {<<"configure", "build">>, <<"configure", "false", "build">>}
PostPullLists  == {<<"rebuild">>, <<"false", "rebuild">>}

\* --target arguments of the pull
HookTargets == {<<>>, <<"kid">>}

\* the tree `gitp clone u_htop top` leaves
HooksTree ==
    pull(Put(WorkArea, Top, Repo("u_htop", "master", Remotes["u_htop"], RemoteIgnore("u_htop"))),
         Top, Top, <<>>, <<>>, FALSE, TRUE).d

HooksInit ==
    /\ disk = HooksTree
    /\ last = NoCommand
    /\ before = HooksTree
    /\ ran = <<>>

\* `gitp pull [--target target]` at the top level
HooksPull(target) ==
    /\ \E res \in {pull(disk, Top, Top, <<>>, target, FALSE, FALSE)} :
           /\ disk' = res.d
           /\ last' = [cmd |-> "pull", raised |-> res.raised, arg |-> target, root |-> Top,
                       flag |-> FALSE, hooks |-> res.hooks]
    /\ before' = disk
    /\ UNCHANGED ran
    /\ UNCHANGED notTree

\* the user removes the child's directory (rm -rf)
HooksUserRemove(p) ==
    /\ p # Top
    /\ is_real_dir(disk, p)
    /\ disk' = RmTree(disk, p)
    /\ last' = NoCommand
    /\ UNCHANGED <<before, ran>>
    /\ UNCHANGED notTree

\* the user rewrites one hook list of a node's manifest and commits it
HooksUserEdit(p, key, cmds) ==
    /\ IsRepo(disk, p)
    /\ disk[p].manifest # <<>>
    /\ disk[p].manifest[1][key] # cmds
    /\ disk' = [disk EXCEPT ![p].manifest = << [@[1] EXCEPT ![key] = cmds] >>]
    /\ last' = NoCommand
    /\ UNCHANGED <<before, ran>>
    /\ UNCHANGED notTree

HooksNext ==
    \/ \E target \in HookTargets : HooksPull(target)
    \/ \E p \in Range(HookNodes) : HooksUserRemove(p)
    \/ \E p \in Range(HookNodes), cmds \in PostCloneLists : HooksUserEdit(p, "post_clone", cmds)
    \/ \E p \in Range(HookNodes), cmds \in PostPullLists : HooksUserEdit(p, "post_pull", cmds)

(***************************************************************************)
(* PUSH (gitp.py 2019-2085) on the cloned workspace                        *)
(* top -> child1 -> gchild1, top -> child2 -> gchild2, top/lib -> child2   *)
(* and on a workspace with an overlay in place                             *)
(*                                                                         *)
(* A working tree's field `ahead` says that it has commits its remote does *)
(* not have.  A push is recorded as the directory git was run in, the      *)
(* working tree git resolved that directory to, and whether it succeeded.  *)
(***************************************************************************)
\* check_for_changes(root, recurse=False, ignore_uncommitted=True) is not
\* empty: `git log --branches --not --remotes`, run in root, prints something
LocalCommits(d, root) ==
    IsDir(d, root) /\ get_repo_root(d, root) # <<>> /\ d[get_repo_root(d, root)].ahead

\* push.work: `git push`, run in root; rejecting: the remotes that refuse
GitPush(st, root, rejecting) ==
    With(get_repo_root(st.d, root), LAMBDA repo :
        IF st.d[repo].url \in rejecting
        THEN [st EXCEPT !.raised = TRUE,
                        !.pushes = Append(@, [root |-> root, repo |-> repo, ok |-> FALSE])]
        ELSE [st EXCEPT !.d = [@ EXCEPT ![repo].ahead = FALSE],
                        !.pushes = Append(@, [root |-> root, repo |-> repo, ok |-> TRUE])])

\* push.work.  st: [d, raised, pushes], threaded through the walk
RECURSIVE PushWork(_, _, _)
RECURSIVE PushChildren(_, _, _, _)
PushChildren(st, root, children, rejecting) ==
    IF children = <<>> \/ st.raised THEN st
    ELSE PushChildren(PushWork(st, Join(root, Head(children)), rejecting),
                      root, Tail(children), rejecting)

PushWork(st, root, rejecting) ==
    IF st.raised \/ IsLink(st.d, root) THEN st
    ELSE With(ManifestAt(st.d, root), LAMBDA m :
         With(IF m # <<>> THEN PushChildren(st, root, ChildKeys(m[1]), rejecting) ELSE st,
              LAMBDA below :
                  IF below.raised THEN below
                  ELSE IF LocalCommits(below.d, root) THEN GitPush(below, root, rejecting)
                  ELSE below))

\* push, the check made without --force: some child is UNALIGNED and is not
\* an overlay in place (for an overlay target that is no symlink
\* check_for_overlay_state_match raises)
PushBlocked(d, repo_root) ==
    With(check_for_state_match(d, repo_root, TRUE, {UNALIGNED}, <<>>, <<>>), LAMBDA unclean :
    With(get_overlays(ManifestAt(d, repo_root)[1], repo_root), LAMBDA overlays :
        \E i \in 1..Len(unclean) :
            With(Join(repo_root, unclean[i].key), LAMBDA repo :
                \/ repo \notin DOMAIN overlays
                \/ check_for_overlay_state_match_raises(d, repo)
                \/ check_for_overlay_state_match(d, repo, overlays, repo_root) # OVERLAYED)))

\* push(--force), run from cwd
push(d, cwd, force, rejecting) ==
    With(get_repo_root(d, cwd), LAMBDA repo_root :
        IF repo_root = <<>> THEN [d |-> d, raised |-> TRUE, pushes |-> <<>>]
        ELSE IF ~force /\ ManifestAt(d, repo_root) # <<>> /\ PushBlocked(d, repo_root)
        THEN [d |-> d, raised |-> TRUE, pushes |-> <<>>]
        ELSE PushWork([d |-> d, raised |-> FALSE, pushes |-> <<>>], repo_root, rejecting))

\* the tree that `gitp clone u_deep top`, an entry
\*   child1/gchild1: {type: overlay, link: child2/child1/gchild1}
\* added to the top manifest, and `gitp sync` leave:
\* top -> child1 -> gchild1 and top -> child2 -> child1 -> gchild1, with
\* top/child1/gchild1 overlaid by top/child2/child1/gchild1
DeepTgt == <<"child1", "gchild1">>
DeepSrc == <<"child2", "child1", "gchild1">>

DeepCloned ==
    pull(Put(WorkArea, Top, Repo("u_deep", "master", Remotes["u_deep"], RemoteIgnore("u_deep"))),
         Top, Top, <<>>, <<>>, FALSE, TRUE).d

DeepDeclared ==
    WriteManifest(DeepCloned, Top,
        SetEntry(ManifestAt(DeepCloned, Top)[1], DeepTgt,
                 [NewRepo EXCEPT !["type"] = "overlay", !["link"] = PathText(DeepSrc)]))

DeepWorkspace == sync(DeepDeclared, Top, <<>>, FALSE).d

\* the nodes in which the user commits, and which the user empties
PushNodes == { <<"top", "child1">>, <<"top", "child1", "gchild1">>,
               <<"top", "child2">>, <<"top", "child2", "gchild2">> }

\* the nodes in which the user switches branches
PushCheckoutNodes == { <<"top", "child2", "gchild2">>, Join(Top, DeepSrc) }

\* the sets of remotes that may refuse a push (their branch has moved on)
RejectingSets == { {}, {"u_c2"}, {"u_ggchild"} }

PushInit ==
    /\ disk \in {Workspace, DeepWorkspace}
    /\ last = NoCommand
    /\ before = disk
    /\ ran = <<>>

\* `gitp push` / `gitp push --force` at the top level
Push(force, rejecting) ==
    /\ \E res \in {push(disk, Top, force, rejecting)} :
           /\ disk' = res.d
           /\ last' = [cmd |-> "push", raised |-> res.raised, arg |-> <<>>, root |-> Top,
                       flag |-> force, pushes |-> res.pushes]
    /\ before' = disk
    /\ UNCHANGED ran
    /\ UNCHANGED notTree

\* the user commits in a working tree (git commit)
PushUserCommit(p) ==
    /\ p \in DOMAIN disk
    /\ disk[p].kind = "repo"
    /\ ~disk[p].ahead
    /\ disk' = [disk EXCEPT ![p].ahead = TRUE]
    /\ last' = NoCommand
    /\ UNCHANGED <<before, ran>>
    /\ UNCHANGED notTree

\* the user empties the directory of a child (rm -rf p; mkdir p)
PushUserEmpty(p) ==
    /\ p \in DOMAIN disk
    /\ disk[p].kind = "repo"
    /\ disk' = MakeDirs(RmTree(disk, p), p)
    /\ last' = NoCommand
    /\ UNCHANGED <<before, ran>>
    /\ UNCHANGED notTree

\* the user switches a child to another branch (git checkout <branch>)
PushUserCheckout(p, branch) ==
    /\ p \in DOMAIN disk
    /\ disk[p].kind = "repo"
    /\ disk[p].branch # branch
    /\ disk' = GitCheckout(disk, p, branch)
    /\ last' = NoCommand
    /\ UNCHANGED <<before, ran>>
    /\ UNCHANGED notTree

PushNext ==
    \/ \E force \in BOOLEAN, rejecting \in RejectingSets : Push(force, rejecting)
    \/ \E p \in PushNodes \cup {Top} : PushUserCommit(p)
    \/ \E p \in PushNodes : PushUserEmpty(p)
    \/ \E p \in PushCheckoutNodes, branch \in Branches : PushUserCheckout(p, branch)
(***************************************************************************)
(* LOCAL WORK AND THE COMMANDS THAT REMOVE DIRECTORIES: pull, sync, link   *)
(* and rm on the cloned workspace, with uncommitted and stashed changes    *)
(***************************************************************************)
\* the nodes in which the user edits and stashes
GuardNodes == { <<"top", "child1">>, <<"top", "child1", "gchild1">> }

\* the targets of rm, and the (target, source) pairs of link
GuardRmTgts == { <<"child1">>, <<"child1", "gchild1">> }
GuardLinks  == { [tgt |-> <<"child1">>, lnk |-> <<"child2">>],
                 [tgt |-> OverlayTgt, lnk |-> OverlaySrc] }

GuardInit ==
    /\ disk = Workspace
    /\ last = NoCommand
    /\ before = disk
    /\ ran = <<>>

\* `gitp pull [--force]` at the top level
GuardPull(force) ==
    /\ \E res \in {pull(disk, Top, Top, <<>>, <<>>, FALSE, force)} :
           /\ disk' = res.d
           /\ last' = [cmd |-> "pull", raised |-> res.raised, arg |-> <<>>, root |-> Top,
                       flag |-> FALSE, force |-> force]
    /\ before' = disk
    /\ UNCHANGED ran
    /\ UNCHANGED notTree

\* `gitp sync [--force]` at the top level
GuardSync(force) ==
    /\ \E res \in {sync(disk, Top, <<>>, force)} :
           /\ disk' = res.d
           /\ last' = [cmd |-> "sync", raised |-> res.raised, arg |-> <<>>, root |-> Top,
                       flag |-> FALSE, force |-> force]
    /\ before' = disk
    /\ UNCHANGED ran
    /\ UNCHANGED notTree

\* `gitp link [--force] tgt lnk` at the top level
GuardLink(tgt, lnk, force) ==
    /\ \E res \in {link(disk, Top, tgt, lnk, FALSE, force)} :
           /\ disk' = res.d
           /\ last' = [cmd |-> "link", raised |-> res.raised, arg |-> tgt, root |-> Top,
                       flag |-> FALSE, force |-> force]
    /\ before' = disk
    /\ UNCHANGED ran
    /\ UNCHANGED notTree

\* `gitp rm [--force] tgt` at the top level
GuardRm(tgt, force) ==
    /\ \E res \in {rm(disk, Top, tgt, force)} :
           /\ disk' = res.d
           /\ last' = [cmd |-> "rm", raised |-> res.raised, arg |-> tgt, root |-> Top,
                       flag |-> FALSE, force |-> force]
    /\ before' = disk
    /\ UNCHANGED ran
    /\ UNCHANGED notTree

\* the user modifies a tracked file of a node, or reverts the modification
GuardUserEdit(p) ==
    /\ p \in DOMAIN disk
    /\ disk[p].kind = "repo"
    /\ disk' = [disk EXCEPT ![p].changes = ~@]
    /\ last' = NoCommand
    /\ UNCHANGED <<before, ran>>
    /\ UNCHANGED notTree

\* the user stashes the modifications of a node (git stash), or drops the stash
GuardUserStash(p) ==
    /\ p \in DOMAIN disk
    /\ disk[p].kind = "repo"
    /\ disk[p].changes \/ disk[p].stashed
    /\ disk' = IF disk[p].changes
               THEN [disk EXCEPT ![p].changes = FALSE, ![p].stashed = TRUE]
               ELSE [disk EXCEPT ![p].stashed = FALSE]
    /\ last' = NoCommand
    /\ UNCHANGED <<before, ran>>
    /\ UNCHANGED notTree

GuardNext ==
    \/ \E force \in BOOLEAN : GuardPull(force)
    \/ \E force \in BOOLEAN : GuardSync(force)
    \/ \E l \in GuardLinks, force \in BOOLEAN : GuardLink(l.tgt, l.lnk, force)
    \/ \E tgt \in GuardRmTgts, force \in BOOLEAN : GuardRm(tgt, force)
    \/ \E p \in GuardNodes : GuardUserEdit(p)
    \/ \E p \in GuardNodes : GuardUserStash(p)

(***************************************************************************)
(* COMMIT (gitp.py 1264-1295) on workspaces with an overlay in place       *)
(*                                                                         *)
(* A working tree's field `changes` says here that it has staged changes.  *)
(* A visit is recorded as the directory work was called for, the working   *)
(* tree git resolved it to, and whether `git commit` ran there.            *)
(***************************************************************************)
\* commit.work, 'Only commit if there are locally staged changes'
CommitHere(st, root) ==
    With(get_repo_root(st.d, root), LAMBDA repo :
        IF repo # <<>> /\ st.d[repo].changes
        THEN [st EXCEPT !.d = [@ EXCEPT ![repo].changes = FALSE, ![repo].ahead = TRUE],
                        !.visits = Append(@, [root |-> root, repo |-> repo, committed |-> TRUE])]
        ELSE [st EXCEPT !.visits = Append(@, [root |-> root, repo |-> repo, committed |-> FALSE])])

\* commit.work.  st: [d, raised, visits]; overlays: <<>> for None, or
\* <<the overlays of the first manifest met>>
RECURSIVE CommitWork(_, _, _)
RECURSIVE CommitChildren(_, _, _, _)
CommitChildren(st, root, children, overlays) ==
    IF children = <<>> \/ st.raised THEN st
    ELSE CommitChildren(IF Head(children) \notin DOMAIN overlays
                        THEN CommitWork(st, Join(root, Head(children)), <<overlays>>)
                        ELSE st,
                        root, Tail(children), overlays)

CommitWork(st, root, overlays) ==
    IF st.raised THEN st
    ELSE IF ~IsDir(st.d, root) THEN [st EXCEPT !.raised = TRUE]
    ELSE With(CommitHere(st, root), LAMBDA here :
         With(ManifestAt(here.d, root), LAMBDA m :
             IF m = <<>> THEN here
             ELSE CommitChildren(here, root, ChildKeys(m[1]),
                                 IF overlays = <<>> THEN get_overlays(m[1], root)
                                 ELSE overlays[1])))

\* commit -m <message>, run from cwd
commit(d, cwd) ==
    With(get_repo_root(d, cwd), LAMBDA root :
        IF root = <<>> THEN [d |-> d, raised |-> TRUE, visits |-> <<>>]
        ELSE CommitWork([d |-> d, raised |-> FALSE, visits |-> <<>>], root, <<>>))

\* the cloned workspace after an entry
\*   child1/gchild1: {type: overlay, link: child2/gchild2}
\* was added to the top manifest and `gitp sync` was run
OverlaidDeclared ==
    WriteManifest(Workspace, Top,
        SetEntry(ManifestAt(Workspace, Top)[1], OverlayTgt,
                 [NewRepo EXCEPT !["type"] = "overlay", !["link"] = PathText(OverlaySrc)]))

OverlaidWorkspace == sync(OverlaidDeclared, Top, <<>>, FALSE).d

\* the working trees in which the user stages changes
CommitNodes == { Top, <<"top", "child1">>, <<"top", "child2", "gchild2">>, Join(Top, DeepSrc) }

CommitInit ==
    /\ disk \in {OverlaidWorkspace, DeepWorkspace}
    /\ last = NoCommand
    /\ before = disk
    /\ ran = <<>>

\* `gitp commit -m <message>` at the top level
Commit ==
    /\ \E res \in {commit(disk, Top)} :
           /\ disk' = res.d
           /\ last' = [cmd |-> "commit", raised |-> res.raised, arg |-> <<>>, root |-> Top,
                       flag |-> FALSE, visits |-> res.visits]
    /\ before' = disk
    /\ UNCHANGED ran
    /\ UNCHANGED notTree

\* the user edits a file in a working tree and stages it (git add)
CommitUserStage(p) ==
    /\ p \in DOMAIN disk
    /\ disk[p].kind = "repo"
    /\ ~disk[p].changes
    /\ disk' = [disk EXCEPT ![p].changes = TRUE]
    /\ last' = NoCommand
    /\ UNCHANGED <<before, ran>>
    /\ UNCHANGED notTree

CommitNext ==
    \/ Commit
    \/ \E p \in CommitNodes : CommitUserStage(p)
(***************************************************************************)
(* PULL --target [--local] (pull.work, gitp.py 1342-1355) on the tree      *)
(* top -> sub -> gchild1, top -> subsub2, and the links top/subsub -> sub  *)
(* and top/lib -> sub                                                      *)
(***************************************************************************)
\* the tree `gitp clone u_tgt top` leaves
TargetTree ==
    pull(Put(WorkArea, Top, Repo("u_tgt", "master", Remotes["u_tgt"], RemoteIgnore("u_tgt"))),
         Top, Top, <<>>, <<>>, FALSE, TRUE).d

\* --target arguments of the pull: sub, sub/, and a sibling
PullTargets == { <<"sub">>, <<"sub", "">>, <<"subsub2">> }

\* the directories the user removes
TargetRemoved == { <<"top", "sub">>, <<"top", "sub", "gchild1">>, <<"top", "subsub2">> }

TargetInit ==
    /\ disk = TargetTree
    /\ last = NoCommand
    /\ before = disk
    /\ ran = <<>>

\* `gitp pull --target target [--local]` at the top level
TargetPull(target, local) ==
    /\ \E res \in {pull(disk, Top, Top, <<>>, target, local, FALSE)} :
           /\ disk' = res.d
           /\ last' = [cmd |-> "pull", raised |-> res.raised, arg |-> target, root |-> Top,
                       flag |-> local, hooks |-> res.hooks]
    /\ before' = disk
    /\ UNCHANGED ran
    /\ UNCHANGED notTree

\* the user removes the directory of a node (rm -rf)
TargetUserRemove(p) ==
    /\ is_real_dir(disk, p)
    /\ disk' = RmTree(disk, p)
    /\ last' = NoCommand
    /\ UNCHANGED <<before, ran>>
    /\ UNCHANGED notTree

\* the user re-creates a symlink with another spelling of where it leads
\* (ln -sfn ./sub lib)
TargetUserRelink(p, text) ==
    /\ IsLink(disk, p)
    /\ ReadLink(disk, p) # text
    /\ disk' = MakeSymlink(Unlink(disk, p), p, text)
    /\ last' = NoCommand
    /\ UNCHANGED <<before, ran>>
    /\ UNCHANGED notTree

\* the user empties the directory of a node (rm -rf p; mkdir p), or checks
\* out another branch in it
TargetUserEmpty(p) ==
    /\ IsRepo(disk, p) /\ is_real_dir(disk, p)
    /\ disk' = MakeDirs(RmTree(disk, p), p)
    /\ last' = NoCommand
    /\ UNCHANGED <<before, ran>>
    /\ UNCHANGED notTree

TargetUserCheckout(p, branch) ==
    /\ IsRepo(disk, p) /\ is_real_dir(disk, p)
    /\ disk[p].branch # branch
    /\ disk' = GitCheckout(disk, p, branch)
    /\ last' = NoCommand
    /\ UNCHANGED <<before, ran>>
    /\ UNCHANGED notTree

TargetNext ==
    \/ \E target \in PullTargets, local \in BOOLEAN : TargetPull(target, local)
    \/ \E p \in TargetRemoved : TargetUserRemove(p)
    \/ \E text \in {"sub", "./sub"} : TargetUserRelink(<<"top", "lib">>, text)
    \/ TargetUserEmpty(<<"top", "subsub2">>)
    \/ \E branch \in Branches : TargetUserCheckout(<<"top", "subsub2">>, branch)
(***************************************************************************)
(* OVERLAY ENTRIES BELOW THE TOP (pull.work, gitp.py 1336-1340, 1389-1408, *)
(* 1456-1468): top -> child2 -> gchild2, and child2's manifest holds       *)
(*   lib: {type: overlay, link: gchild2}                                   *)
(***************************************************************************)
\* where the overlay entry of child2's manifest points, in the tree at top
\* and in a clone at L.copy
NestedOverlayTargets == { <<"top", "child2", "lib">>, <<"L.copy", "child2", "lib">> }

\* the directories the user removes
NestedRemoved == { <<"top", "child2">>, <<"top", "child2", "gchild2">>,
                   <<"top", "child2", "lib">>, <<"L.copy">> }

\* `git clone u_nest top`: the top repository alone
NestedInit ==
    /\ disk = Put(WorkArea, Top, Repo("u_nest", "master", Remotes["u_nest"], RemoteIgnore("u_nest")))
    /\ last = NoCommand
    /\ before = disk
    /\ ran = <<>>

\* `gitp pull [--local] [--force]` at the top level
NestedPull(local, force) ==
    /\ \E res \in {pull(disk, Top, Top, <<>>, <<>>, local, force)} :
           /\ disk' = res.d
           /\ last' = [cmd |-> "pull", raised |-> res.raised, arg |-> <<>>, root |-> Top,
                       flag |-> local, force |-> force]
    /\ before' = disk
    /\ UNCHANGED ran
    /\ UNCHANGED notTree

\* `gitp sync [--force]` at the top level
NestedSync(force) ==
    /\ \E res \in {sync(disk, Top, <<>>, force)} :
           /\ disk' = res.d
           /\ last' = [cmd |-> "sync", raised |-> res.raised, arg |-> <<>>, root |-> Top,
                       flag |-> FALSE, force |-> force]
    /\ before' = disk
    /\ UNCHANGED ran
    /\ UNCHANGED notTree

\* `gitp clone u_nest L.copy` in the work area
NestedClone ==
    /\ \E res \in {clone(disk, <<>>, [url |-> "u_nest"], CopyPath)} :
           /\ disk' = res.d
           /\ last' = [cmd |-> "clone", raised |-> res.raised, arg |-> CopyPath, root |-> CopyPath,
                       flag |-> FALSE, force |-> FALSE]
    /\ before' = disk
    /\ UNCHANGED ran
    /\ UNCHANGED notTree

\* the user removes a directory (rm -rf) or a symlink (rm)
NestedUserRemove(p) ==
    /\ is_real_dir(disk, p) \/ IsLink(disk, p)
    /\ disk' = IF IsLink(disk, p) THEN Unlink(disk, p) ELSE RmTree(disk, p)
    /\ last' = NoCommand
    /\ UNCHANGED <<before, ran>>
    /\ UNCHANGED notTree

\* the user makes a directory where the overlay entry points (mkdir)
NestedUserMkdir(p) ==
    /\ ~Exists(disk, p) /\ ~IsLink(disk, p)
    /\ is_real_dir(disk, DirName(p))
    /\ disk' = MakeDirs(disk, p)
    /\ last' = NoCommand
    /\ UNCHANGED <<before, ran>>
    /\ UNCHANGED notTree

NestedNext ==
    \/ \E local, force \in BOOLEAN : NestedPull(local, force)
    \/ \E force \in BOOLEAN : NestedSync(force)
    \/ NestedClone
    \/ \E p \in NestedRemoved : NestedUserRemove(p)
    \/ NestedUserMkdir(<<"top", "child2", "lib">>)

(***************************************************************************)
(* PINNED ENTRIES (pull.work, gitp.py 1444-1449; new, 2348-2356):          *)
(* top -> child1 (commit: c_old, an earlier commit of master),             *)
(* top -> child2 (commit: c_m, the abbreviated tip of master)              *)
(***************************************************************************)
\* the commits an entry may pin: an earlier commit of master, its tip, and
\* the tip abbreviated
PinCommits == {"c_old", "c_master", "c_m"}

PinNodes == { <<"top", "child1">>, <<"top", "child2">>, <<"top", "lib">> }

\* `git clone u_pin top`: the top repository alone
PinInit ==
    /\ disk = Put(WorkArea, Top, Repo("u_pin", "master", Remotes["u_pin"], RemoteIgnore("u_pin")))
    /\ last = NoCommand
    /\ before = disk
    /\ ran = <<>>

\* `gitp pull [--force]` at the top level
PinPull(force) ==
    /\ \E res \in {pull(disk, Top, Top, <<>>, <<>>, FALSE, force)} :
           /\ disk' = res.d
           /\ last' = [cmd |-> "pull", raised |-> res.raised, arg |-> <<>>, root |-> Top,
                       flag |-> force]
    /\ before' = disk
    /\ UNCHANGED ran
    /\ UNCHANGED notTree

\* `gitp clone u_pin L.copy` in the work area
PinClone ==
    /\ \E res \in {clone(disk, <<>>, [url |-> "u_pin"], CopyPath)} :
           /\ disk' = res.d
           /\ last' = [cmd |-> "clone", raised |-> res.raised, arg |-> <<>>, root |-> CopyPath,
                       flag |-> FALSE]
    /\ before' = disk
    /\ UNCHANGED ran
    /\ UNCHANGED notTree

\* `gitp new lib --from u_ggchild --commit pin` at the top level (--branch
\* keeps its default, master)
PinNew(pin) ==
    /\ \E res \in {new(disk, Top, <<"lib">>,
                       [NewRepo EXCEPT !["url"] = "u_ggchild", !["branch"] = "master",
                                       !["commit"] = pin])} :
           /\ disk' = res.d
           /\ last' = [cmd |-> "new", raised |-> res.raised, arg |-> <<"lib">>, root |-> res.root,
                       flag |-> FALSE]
    /\ before' = disk
    /\ UNCHANGED ran
    /\ UNCHANGED notTree

\* `gitp rm --force lib` at the top level
PinRm ==
    /\ \E res \in {rm(disk, Top, <<"lib">>, TRUE)} :
           /\ disk' = res.d
           /\ last' = [cmd |-> "rm", raised |-> res.raised, arg |-> <<"lib">>, root |-> res.root,
                       flag |-> TRUE]
    /\ before' = disk
    /\ UNCHANGED ran
    /\ UNCHANGED notTree

\* the user moves a node to a commit (git reset --hard to)
PinUserReset(p, to) ==
    /\ IsRepo(disk, p) /\ is_real_dir(disk, p)
    /\ disk[p].commit # to
    /\ disk' = [disk EXCEPT ![p].commit = to]
    /\ last' = NoCommand
    /\ UNCHANGED <<before, ran>>
    /\ UNCHANGED notTree

\* the user removes a node (rm -rf)
PinUserRemove(p) ==
    /\ is_real_dir(disk, p)
    /\ disk' = RmTree(disk, p)
    /\ last' = NoCommand
    /\ UNCHANGED <<before, ran>>
    /\ UNCHANGED notTree

PinNext ==
    \/ \E force \in BOOLEAN : PinPull(force)
    \/ PinClone
    \/ \E pin \in PinCommits : PinNew(pin)
    \/ PinRm
    \/ \E p \in PinNodes, to \in {"c_old", "c_master"} : PinUserReset(p, to)
    \/ \E p \in PinNodes \cup {CopyPath} : PinUserRemove(p)

(***************************************************************************)
(* LINK_NEWEST (resolve_repo_link, get_latest_subdir, gitp.py 690-737):    *)
(* the top manifest holds                                                  *)
(*   lib: {link: builds, link_newest: true[, link_filter: b1]}             *)
(* and the user keeps build directories in top/builds                      *)
(***************************************************************************)
MaxMtime == 2       \* the modification times a build directory may carry

Builds == <<"top", "builds">>
BuildDirs == { <<"top", "builds", "b1">>, <<"top", "builds", "b2">> }

\* the link_filter values tried: none, and a name
NewestFilters == {None, "b1"}

NewestEntry(link_filter) ==
    [url |-> "u_c1", link |-> "builds", link_newest |-> "true", link_filter |-> link_filter]

\* a directory last modified at time t
BuildDir(t) == PlainDir @@ [mtime |-> t]

NewestInit ==
    /\ \E link_filter \in NewestFilters :
           disk = Put(WorkArea, Top,
                      Repo("u_top", "master",
                           <<[repos |-> [c \in {<<"lib">>} |-> NewestEntry(link_filter)]]>>,
                           << <<>>, <<"lib">> >>))
    /\ last = NoCommand
    /\ before = disk
    /\ ran = <<>>

\* resolve_repo_link(top, entry of lib, fail) on the tree as it is
NewestResolve(fail) ==
    /\ \E entry \in {ManifestAt(disk, Top)[1].repos[<<"lib">>]} :
           last' = [cmd |-> "resolve",
                    raised |-> resolve_repo_link_raises(disk, Top, entry, fail),
                    arg |-> IF resolve_repo_link_raises(disk, Top, entry, fail) THEN <<>>
                            ELSE resolve_repo_link(disk, Top, entry, fail),
                    root |-> Top, flag |-> fail]
    /\ before' = disk
    /\ UNCHANGED <<disk, ran>>
    /\ UNCHANGED notTree

\* `gitp pull [--force]` at the top level
NewestPull(force) ==
    /\ \E res \in {pull(disk, Top, Top, <<>>, <<>>, FALSE, force)} :
           /\ disk' = res.d
           /\ last' = [cmd |-> "pull", raised |-> res.raised, arg |-> <<>>, root |-> Top,
                       flag |-> force]
    /\ before' = disk
    /\ UNCHANGED ran
    /\ UNCHANGED notTree

\* the user makes a build directory, or writes into one, at time t
NewestUserBuild(p, t) ==
    /\ IF p \in DOMAIN disk THEN disk[p].mtime # t ELSE TRUE
    /\ disk' = Put(MakeDirs(disk, DirName(p)), p, BuildDir(t))
    /\ last' = NoCommand
    /\ UNCHANGED <<before, ran>>
    /\ UNCHANGED notTree

\* the user removes a build directory, or all of them (rm -rf)
NewestUserRemove(p) ==
    /\ is_real_dir(disk, p)
    /\ disk' = RmTree(disk, p)
    /\ last' = NoCommand
    /\ UNCHANGED <<before, ran>>
    /\ UNCHANGED notTree

NewestNext ==
    \/ \E fail \in BOOLEAN : NewestResolve(fail)
    \/ \E force \in BOOLEAN : NewestPull(force)
    \/ \E p \in BuildDirs, t \in 1..MaxMtime : NewestUserBuild(p, t)
    \/ \E p \in BuildDirs \cup {Builds} : NewestUserRemove(p)

(***************************************************************************)
(* CHECKOUT (gitp.py 1547-1632): `gitp checkout <ref>` inside a child of   *)
(* a cloned workspace whose entries pin no commit (u_ws) or pin one (u_pin)*)
(***************************************************************************)
\* the tag every repository carries, and the commit it names
Tags == {"v1"}
TagCommit(tag) == "c_old"

\* what `git checkout <ref>` makes of HEAD: on a branch, or detached (the
\* branch get_current_branch then reports is ''); <<>> for an unknown ref
ResolveRef(ref) ==
    IF ref \in Branches THEN <<[branch |-> ref, commit |-> Tip(ref)]>>
    ELSE IF ref \in Tags THEN <<[branch |-> "", commit |-> TagCommit(ref)]>>
    ELSE IF ref \in {"c_old", "c_master", "c_dev"} THEN <<[branch |-> "", commit |-> ref]>>
    ELSE IF ref = "c_m" THEN <<[branch |-> "", commit |-> "c_master"]>>
    ELSE IF ref = "c_d" THEN <<[branch |-> "", commit |-> "c_dev"]>>
    ELSE <<>>

\* `git show-ref --verify refs/tags/<ref>` or refs/heads/<ref> succeeds
IsBranchRef(ref) == ref \in Tags \cup Branches

\* is_fh(ref): the ref names a file or a directory of the current directory
is_fh(d, cwd, ref) == Exists(d, Append(cwd, ref))

\* get_parent_manifest(root): the root of the working tree that holds the
\* directory of root; <<>> when there is none
ParentRoot(d, root) == get_repo_root(d, DirName(root))

\* checkout, 'Update parent manifest, if possible': the branch of the entry
\* becomes the ref, or its commit does; the other field stays as it was
CheckoutUpdateParent(d, repo_root, src_ref) ==
    With(ParentRoot(d, repo_root), LAMBDA parent_root :
        IF parent_root = <<>> THEN [d |-> d, raised |-> FALSE]
        ELSE IF get_manifest_raises(d, parent_root) THEN [d |-> d, raised |-> TRUE]
        ELSE With(get_manifest_create(d, parent_root), LAMBDA d1 :
             With(ManifestAt(d1, parent_root)[1], LAMBDA parent_m :
             With(RelPath(repo_root, parent_root), LAMBDA entry_name :
                 IF entry_name \notin DOMAIN parent_m.repos THEN [d |-> d1, raised |-> TRUE]
                 ELSE [d |-> WriteManifest(d1, parent_root,
                                 SetEntry(parent_m, entry_name,
                                     IF IsBranchRef(src_ref)
                                     THEN [parent_m.repos[entry_name] EXCEPT !["branch"] = src_ref]
                                     ELSE [parent_m.repos[entry_name] EXCEPT !["commit"] = src_ref])),
                       raised |-> FALSE]))))

\* checkout, 'Checkout head to point to branch/commit', for one ref that is
\* no file: the guard against local changes, `git checkout`, the update of
\* the parent's manifest, and the re-sync of the children.  (git carries
\* local modifications over to the ref it switches to.)
CheckoutHead(d, cwd, repo_root, src_ref, force) ==
    IF ~force /\ check_for_changes(d, repo_root, TRUE) # {} THEN [d |-> d, raised |-> TRUE]
    ELSE IF ResolveRef(src_ref) = <<>> THEN [d |-> d, raised |-> TRUE]
    ELSE With([d EXCEPT ![repo_root].branch = ResolveRef(src_ref)[1].branch,
                        ![repo_root].commit = ResolveRef(src_ref)[1].commit], LAMBDA switched :
         With(CheckoutUpdateParent(switched, repo_root, src_ref), LAMBDA updated :
             IF updated.raised THEN updated
             ELSE sync(updated.d, cwd, <<>>, force)))

\* checkout(ref, --force), run from cwd
checkout(d0, cwd, ref, force) ==
    With(get_repo_root(d0, cwd), LAMBDA repo_root :
        IF repo_root = <<>> \/ get_manifest_raises(d0, repo_root) THEN [d |-> d0, raised |-> TRUE]
        ELSE CheckoutHead(get_manifest_create(d0, repo_root), cwd, repo_root, ref, force))

\* the workspaces, the nodes `gitp checkout` is run in, and the refs given
CheckoutUrls  == {"u_ws", "u_pin"}
CheckoutNodes == { <<"top", "child1">> }
CheckoutRefs  == {"master", "dev", "v1", "c_old", "c_d", "nope"}

\* `gitp clone <url> top`
CheckoutInit ==
    /\ \E u \in CheckoutUrls :
           disk = pull(Put(WorkArea, Top, Repo(u, "master", Remotes[u], RemoteIgnore(u))),
                       Top, Top, <<>>, <<>>, FALSE, TRUE).d
    /\ last = [cmd |-> "clone", raised |-> FALSE, arg |-> <<>>, root |-> <<>>, flag |-> FALSE]
    /\ before = disk
    /\ ran = <<>>

\* `gitp checkout [--force] ref` in node p
Checkout(p, ref, force) ==
    /\ IsRepo(disk, p)
    /\ ~is_fh(disk, p, ref)
    /\ \E res \in {checkout(disk, p, ref, force)} :
           /\ disk' = res.d
           /\ last' = [cmd |-> "checkout", raised |-> res.raised, arg |-> <<ref>>, root |-> p,
                       flag |-> force]
    /\ before' = disk
    /\ UNCHANGED ran
    /\ UNCHANGED notTree

\* the user modifies a tracked file of a node, or reverts the modification
CheckoutUserEdit(p) ==
    /\ IsRepo(disk, p)
    /\ disk' = [disk EXCEPT ![p].changes = ~@]
    /\ last' = NoCommand
    /\ UNCHANGED <<before, ran>>
    /\ UNCHANGED notTree

\* `gitp pull [--force]` at the top level
CheckoutPull(force) ==
    /\ \E res \in {pull(disk, Top, Top, <<>>, <<>>, FALSE, force)} :
           /\ disk' = res.d
           /\ last' = [cmd |-> "pull", raised |-> res.raised, arg |-> <<>>, root |-> Top,
                       flag |-> force]
    /\ before' = disk
    /\ UNCHANGED ran
    /\ UNCHANGED notTree

CheckoutNext ==
    \/ \E p \in CheckoutNodes, ref \in CheckoutRefs, force \in BOOLEAN : Checkout(p, ref, force)
    \/ \E p \in CheckoutNodes : CheckoutUserEdit(p)
    \/ \E force \in BOOLEAN : CheckoutPull(force)

(***************************************************************************)
(* SPECIFICATIONS                                                          *)
(***************************************************************************)
\* the state of a subsystem that a specification does not move
LockIdle ==
    /\ MAX_CONNS = 0 /\ EVENTS = <<>> /\ IDS = <<>> /\ evflag = <<>> /\ hpc = <<>>
    /\ req_id = <<>> /\ lock_granted = <<>> /\ sent = <<>> /\ cstate = <<>>
    /\ order = <<>> /\ busyAtConnect = <<>>

ClientIdle ==
    /\ cpc = <<>> /\ wpc = <<>> /\ wstep = <<>> /\ inflight = <<>>

ManifestIdle ==
    /\ gitp_manifest = <<>> /\ manifest = EmptyManifest /\ written = EmptyManifest
    /\ mstage = "idle"

StashIdle ==
    /\ worktree = <<>> /\ git_stash = <<>> /\ gitp_stashes = <<>> /\ stash_raised = FALSE
    /\ stash_phase = "idle" /\ pre_worktree = <<>> /\ pre_stashes = <<>>
    /\ stash_op = <<>>

TreeIdle ==
    /\ disk = <<>> /\ last = [cmd |-> "idle", raised |-> FALSE] /\ before = <<>> /\ ran = <<>>

LockSpecInit == LockInit /\ ClientIdle /\ ManifestIdle /\ StashIdle /\ TreeIdle

SpecLock == LockSpecInit /\ [][LockNext]_vars

\* the event loop runs every coroutine that is ready: a waiter whose event is
\* set, a holder whose read has returned data or raised, a drain() that is
\* to raise; and the timer of asyncio.wait_for expires
LockFairness ==
    \A c \in Conns :
        /\ WF_vars(Wake(c))
        /\ WF_vars(Release(c))
        /\ WF_vars(DrainRaise(c))
        /\ WF_vars(Timeout(c))

SpecLockLive == LockSpecInit /\ [][LockNext]_vars /\ LockFairness

ManifestSpecInit == ManifestInit /\ LockIdle /\ ClientIdle /\ StashIdle /\ TreeIdle

ClientSpecInit == LockInit /\ ClientInit /\ ManifestIdle /\ StashIdle /\ TreeIdle

SpecClient == ClientSpecInit /\ [][ClientNext]_vars

SpecManifest == ManifestSpecInit /\ [][ManifestNext]_vars

StashSpecInit == StashInit /\ LockIdle /\ ClientIdle /\ ManifestIdle /\ TreeIdle

SpecStash == StashSpecInit /\ [][StashNext]_vars

\* the state of the subsystems other than the working trees
OthersIdle == LockIdle /\ ClientIdle /\ ManifestIdle /\ StashIdle

SyncSpecInit == SyncInit /\ OthersIdle

SpecSync == SyncSpecInit /\ [][SyncNext]_vars

NewSpecInit == NewInit /\ OthersIdle

SpecNew == NewSpecInit /\ [][NewNext]_vars

CloneSpecInit == CloneInit /\ OthersIdle

SpecClone == CloneSpecInit /\ [][CloneNext]_vars

OverlaySpecInit == OverlayInit /\ OthersIdle

SpecOverlay == OverlaySpecInit /\ [][OverlayNext]_vars

HooksSpecInit == HooksInit /\ OthersIdle

SpecHooks == HooksSpecInit /\ [][HooksNext]_vars

PushSpecInit == PushInit /\ OthersIdle

SpecPush == PushSpecInit /\ [][PushNext]_vars

GuardSpecInit == GuardInit /\ OthersIdle

SpecGuard == GuardSpecInit /\ [][GuardNext]_vars

CommitSpecInit == CommitInit /\ OthersIdle

SpecCommit == CommitSpecInit /\ [][CommitNext]_vars

TargetSpecInit == TargetInit /\ OthersIdle

SpecTarget == TargetSpecInit /\ [][TargetNext]_vars

NestedSpecInit == NestedInit /\ OthersIdle

SpecNested == NestedSpecInit /\ [][NestedNext]_vars

PinSpecInit == PinInit /\ OthersIdle

SpecPin == PinSpecInit /\ [][PinNext]_vars

NewestSpecInit == NewestInit /\ OthersIdle

SpecNewest == NewestSpecInit /\ [][NewestNext]_vars

CheckoutSpecInit == CheckoutInit /\ OthersIdle

SpecCheckout == CheckoutSpecInit /\ [][CheckoutNext]_vars

(***************************************************************************)
(* Lock server: properties                                                 *)
(***************************************************************************)
InQueue(c) == c \in Range(EVENTS)

\* position of a connection in the arrival order (0: not arrived)
ArrivalPos(c) ==
    LET idx == {i \in 1..Len(order) : order[i] = c}
    IN  IF idx = {} THEN 0 ELSE CHOOSE i \in idx : TRUE

ConnectedBefore(d, c) == ArrivalPos(d) > 0 /\ ArrivalPos(c) > 0 /\ ArrivalPos(d) < ArrivalPos(c)

\* C1: mutual exclusion. In every reachable state at most one connection has
\* been sent the grant "0:<timeout>" and is still in the queue.
C1_MutualExclusion ==
    Cardinality({c \in Conns : Granted(c) /\ InQueue(c)}) <= 1

\* C1 witness: one connection holds the lock while another one is queued behind it
C1_Witness ==
    \E c, d \in Conns : c # d /\ Granted(c) /\ InQueue(c) /\ InQueue(d) /\ ~Granted(d)

\* C8, state part: a connection that arrived while the queue was not empty
\* got a place in line >= 1 as its first message after the id.
C8_PlaceFirst ==
    \A c \in Conns :
        (busyAtConnect[c] /\ Len(sent[c]) >= 2) =>
            (sent[c][2][1] = "place" /\ sent[c][2][2] >= 1)

\* C8, step part: the step that sends a connection the grant leaves no
\* earlier-arrived connection in the queue.
C8_GrantStep ==
    \A c \in Conns :
        (~Granted(c) /\ Granted(c)') =>
            \A d \in Conns : ConnectedBefore(d, c)' => ~(d \in Range(EVENTS'))

\* C8: the lock is granted in connection order. A client that connects while
\* another is queued or holding is first sent a place >= 1, and is sent the
\* grant only after every client that connected before it has left the queue.
C8_GrantInConnectionOrder == [](C8_PlaceFirst) /\ [][C8_GrantStep]_vars

\* C8 witness: a connection that arrived behind another one was told a place
\* >= 1 and later got the grant, after the earlier one had left the queue
C8_Witness ==
    \E c \in Conns :
        /\ busyAtConnect[c]
        /\ Granted(c)
        /\ InQueue(c)
        /\ \E d \in Conns : ConnectedBefore(d, c) /\ hpc[d] = "closed"

\* the number of connections queued ahead of c
Ahead(ev, c) ==
    Cardinality({i \in 1..Len(ev) : \E j \in (i + 1)..Len(ev) : ev[j] = c /\ ev[i] # c})

\* C15: when the holder's client has closed its end without sending, the
\* server's release step (the read in wait_for_release ending the wait) can
\* be taken: the holder leaves the queue in response to the close and not
\* only when its timeout expires.
C15_CloseReleases ==
    \A c \in Conns :
        (hpc[c] = "granted" /\ cstate[c] = "eof") => ENABLED Release(c)

\* C16, step part: the timeout of a holder closes its stream, takes it out of
\* the queue and sets the event of every connection that remains queued.
C16_TimeoutStep ==
    \A c \in Conns :
        Timeout(c) =>
            /\ hpc'[c] = "closed"
            /\ c \notin Range(EVENTS')
            /\ req_id[c] \notin Range(IDS')
            /\ \A d \in Range(EVENTS') : evflag'[d]

\* C16: a holder forfeits the lock when its timeout fires, and with every
\* holder releasing or timing out every waiter that stays connected is
\* eventually granted the lock.
C16_TimeoutBoundsHolding ==
    /\ [][C16_TimeoutStep]_vars
    /\ \A c \in Conns :
          (hpc[c] = "waiting") ~> (hpc[c] = "granted" \/ cstate[c] # "open")

\* C16 witness: a holder that neither sent nor reset has been taken out by
\* its timeout, and a connected waiter behind it has the lock
C16_Witness ==
    \E c, d \in Conns :
        /\ ConnectedBefore(d, c)
        /\ hpc[d] = "closed" /\ Granted(d) /\ cstate[d] \in {"open", "eof"}
        /\ busyAtConnect[c] /\ hpc[c] = "granted" /\ cstate[c] = "open"

\* C17, state part: the queue never holds more than MAX_CONNS connections,
\* and a rejected connection has no id, no place and nothing sent.
C17_QueueBound ==
    /\ Len(EVENTS) <= MAX_CONNS
    /\ \A c \in Conns :
          hpc[c] = "rejected" =>
              (req_id[c] = 0 /\ c \notin Range(EVENTS) /\ sent[c] = <<>>)

\* C17, step part: a connection that arrives while the queue holds
\* MAX_CONNS entries is closed, and queue and id set stay as they are.
C17_RejectStep ==
    \A c \in Conns :
        (hpc[c] = "new" /\ hpc'[c] # "new" /\ Len(EVENTS) >= MAX_CONNS) =>
            /\ hpc'[c] = "rejected"
            /\ EVENTS' = EVENTS /\ IDS' = IDS
            /\ req_id'[c] = 0 /\ sent'[c] = <<>>

\* C17: the queue (holder plus waiters) never exceeds queue_size; a
\* connection arriving at a full queue is closed without id or place, and
\* leaves queue and id set unchanged.
C17_QueueNeverExceeds == [](C17_QueueBound) /\ [][C17_RejectStep]_vars

\* C17 witness: a connection was rejected while the queue is full
C17_Witness ==
    \E c \in Conns : hpc[c] = "rejected" /\ Len(EVENTS) = MAX_CONNS

\* C18, state part: the places sent to one connection never increase, and
\* the grant is the last thing sent.
C18_PlacesInOrder ==
    \A c \in Conns :
        /\ \A i, j \in 1..Len(sent[c]) :
              (i < j /\ sent[c][i][1] = "place" /\ sent[c][j][1] = "place") =>
                  sent[c][i][2] >= sent[c][j][2]
        /\ \A i \in 1..Len(sent[c]) : sent[c][i][1] = "grant" => i = Len(sent[c])

\* C18, step part: when a connection leaves the queue the event of every
\* remaining waiter is set, and a place that is sent is the number of
\* connections ahead (the grant is sent with none ahead).
C18_NotifyStep ==
    /\ Len(EVENTS') < Len(EVENTS) =>
          \A d \in Range(EVENTS') : hpc'[d] = "waiting" => evflag'[d]
    /\ \A c \in Conns :
          (Len(sent'[c]) > Len(sent[c]) /\ sent'[c][Len(sent'[c])][1] # "id") =>
              LET msg == sent'[c][Len(sent'[c])]
              IN  IF msg[1] = "grant" THEN Ahead(EVENTS', c) = 0
                  ELSE msg[2] = Ahead(EVENTS', c) /\ msg[2] > 0

\* C18: whenever a connection leaves the queue every remaining waiter is
\* sent its new place, the number of connections ahead of it; the places
\* sent to one waiter never increase; after the grant nothing is sent.
C18_PlaceUpdates ==
    /\ [](C18_PlacesInOrder)
    /\ [][C18_NotifyStep]_vars
    /\ \A d \in Conns : (hpc[d] = "waiting" /\ evflag[d]) ~> ~evflag[d]

\* C18 witness: a waiter was told place 2, then place 1 after a connection
\* ahead of it had left, and then was sent the grant
C18_Witness ==
    \E c \in Conns :
        /\ Len(sent[c]) >= 4
        /\ sent[c][2] = <<"place", 2>>
        /\ \E i \in 3..Len(sent[c]) : sent[c][i] = <<"place", 1>>
        /\ sent[c][Len(sent[c])][1] = "grant"

\* C19: a waiter whose client has disconnected before the grant is not
\* granted the lock afterwards.
C19_DisconnectedWaiterStep ==
    \A c \in Conns :
        (hpc[c] = "waiting" /\ cstate[c] \in {"eof", "reset"}) => hpc'[c] # "granted"

\* C19: a waiter that disconnects before it has been granted the lock leaves
\* the queue and is never granted the lock afterwards.
C19_DisconnectedWaiterNeverGranted == [][C19_DisconnectedWaiterStep]_vars

(***************************************************************************)
(* Manifest store: properties                                              *)
(***************************************************************************)
\* C3: manifest round trip. Parsing the text that write()/as_dict() produced
\* for a manifest M yields a manifest equal to M in all entries and in the
\* settings lock_server, post_clone and post_pull.
C3_RoundTrip ==
    mstage = "reloaded" =>
        /\ manifest.repos = written.repos
        /\ manifest.lock_server = written.lock_server
        /\ manifest.post_clone = written.post_clone
        /\ manifest.post_pull = written.post_pull

(***************************************************************************)
(* Stash stack: properties                                                 *)
(***************************************************************************)
\* the entries of .gitp_stashes: what each line says, top first
StashEntries(lines) == [i \in 1..Len(lines) |-> [branch |-> lines[i].branch, msg |-> lines[i].msg]]

\* C5: `stash push` immediately followed by `stash pop` with no reference
\* leaves every repo's working tree and the entries of .gitp_stashes as they
\* were before the push (on a clean tree the pair changes nothing).
C5_PushPopRoundTrip ==
    stash_phase = "popped" =>
        /\ worktree = pre_worktree
        /\ StashEntries(gitp_stashes) = StashEntries(pre_stashes)

\* the lines carry the positions 0..n-1 in file order
PositionsInOrder(lines) == \A i \in 1..Len(lines) : lines[i].pos = i - 1

\* C14: after every stash operation that changes the stack (push, pop, drop,
\* branch, clear) and completes, the lines of .gitp_stashes carry the
\* positions 0..n-1 in file order, so that the top entry is stash@{0}.
C14_PositionsInOrder ==
    (stash_phase # "edited" /\ ~stash_raised) => PositionsInOrder(gitp_stashes)

\* a push onto a stack that already holds an entry has completed: two lines
C14_Witness ==
    /\ stash_phase = "pushed"
    /\ ~stash_raised
    /\ Len(pre_stashes) = 1
    /\ Len(gitp_stashes) = 2

\* the ids of the lines a reference denotes: position 0 without a reference,
\* position N for stash@{N}, and for any other reference the lines whose
\* message, as given to push -m or as printed in full, is the reference
ExpectedIds(lines, ref) ==
    { lines[i].id : i \in { j \in 1..Len(lines) :
        IF ref = <<>> THEN lines[j].pos = 0
        ELSE IF "pos" \in DOMAIN ref[1] THEN lines[j].pos = ref[1].pos
        ELSE ref[1].msg \in { <<lines[j].msg.text>>, MsgWords(lines[j].msg) } } }

\* the entries of a git stash list that belong, or do not belong, to the ids
OfIds(gs_r, ids) == SelectSeq(gs_r, LAMBDA e : e.msg.id \in ids)
NotOfIds(gs_r, ids) == SelectSeq(gs_r, LAMBDA e : e.msg.id \notin ids)

\* C28: with no reference, pop and drop operate on exactly the entry at
\* position 0; with a reference, on exactly the entry whose position is N
\* for stash@{N}, or whose user-supplied message equals the reference; a
\* reference matching no entry is an error raised before any repo's stash
\* is touched.
C28_StashTargeting ==
    (stash_op # <<>> /\ stash_op.op \in {"pop", "drop"}) =>
        IF stash_op.ref # <<>> /\ ExpectedIds(stash_op.lines, stash_op.ref) = {}
        THEN stash_op.unknown /\ stash_raised /\ git_stash = stash_op.gs
        ELSE /\ ~stash_op.unknown
             /\ \A r \in StashRepoSet :
                   NotOfIds(git_stash[r], ExpectedIds(stash_op.lines, stash_op.ref))
                     = NotOfIds(stash_op.gs[r], ExpectedIds(stash_op.lines, stash_op.ref))
             \* every repo holds at most one stash of the entry: none is left
             /\ (/\ stash_op.op = "drop"
                 /\ \A r \in StashRepoSet :
                       Len(OfIds(stash_op.gs[r], ExpectedIds(stash_op.lines, stash_op.ref))) <= 1)
                  => \A r \in StashRepoSet :
                        OfIds(git_stash[r], ExpectedIds(stash_op.lines, stash_op.ref)) = <<>>


(***************************************************************************)
(* Working trees: properties                                               *)
(***************************************************************************)
\* every child declared by the manifests at and below root, overlays aside,
\* is on disk and agrees with its entry
RECURSIVE DeclaredAligned(_, _)
DeclaredAligned(d, root) ==
    LET m == ManifestAt(d, root)
    IN  \/ m = <<>>
        \/ \A c \in DOMAIN m[1].repos :
              \/ m[1].repos[c]["type"] = "overlay"
              \/ /\ ChildState(d, Join(root, c), m[1].repos[c]).state = None
                 /\ DeclaredAligned(d, Join(root, c))

\* C2: after `sync` with no targets completes without error,
\* check_for_state_match(root) reports no node and every declared child at
\* every depth is materialized and aligned with its manifest entry.
C2_SyncAligns ==
    (last.cmd = "sync" /\ ~last.raised) =>
        /\ check_for_state_match(disk, Top, TRUE, {}, <<>>, <<>>) = <<>>
        /\ DeclaredAligned(disk, Top)


\* the manifest of a directory as the program sees it (no file: no entries,
\* no settings), and the entries of its .gitignore
ManifestView(d, root) ==
    IF ManifestAt(d, root) = <<>> THEN EmptyManifest ELSE ManifestAt(d, root)[1]

IgnoreEntries(d, root) ==
    {Strip(line) : line \in Range(d[RealPath(d, root)].gitignore)} \ {<<>>}

\* C4: a successful `new X` followed by `rm X` leaves the parent's manifest
\* (its entries and its top-level settings lock_server, post_clone,
\* post_pull) and the set of its .gitignore entries as they were before.
C4_NewRmRestores ==
    (last.cmd = "rm" /\ last.flag /\ ~last.raised) =>
        /\ ManifestView(disk, last.root) = ManifestView(before, last.root)
        /\ IgnoreEntries(disk, last.root) = IgnoreEntries(before, last.root)

\* C7: `new P` is rejected with an error and every manifest is unchanged
\* whenever some existing manifest entry denotes a repo strictly below P.
C7_NewAboveEntryRejected ==
    (last.cmd = "new" /\ last.flag) =>
        /\ last.raised
        /\ \A p \in {q \in DOMAIN before : before[q].kind = "repo"} :
              p \in DOMAIN disk /\ ManifestView(disk, p) = ManifestView(before, p)

\* C10: when `clone`, or `pull` with a source, takes a local tree as source
\* and a child declared in the source is not materialized there, the command
\* succeeds, the child is materialized in the destination and every node of
\* the destination is aligned.
C10_PartialLocalSource ==
    (last.cmd \in {"clone", "pull"} /\ last.flag) =>
        /\ ~last.raised
        /\ SourceComplete(disk, CopyPath)
        /\ DeclaredAligned(disk, CopyPath)

\* the paths reachable through manifests from root
RECURSIVE DeclaredPaths(_, _)
DeclaredPaths(d, root) ==
    LET m == ManifestAt(d, root)
    IN  {root} \cup (IF m = <<>> THEN {}
                     ELSE UNION {DeclaredPaths(d, Join(root, c)) : c \in DOMAIN m[1].repos})

\* p is a symlink or lies below one
ThroughLink(d, p) == \E i \in 1..Len(p) : IsLink(d, SubSeq(p, 1, i))

\* p matches a target or a filter of the selection
Selected(sel, p) ==
    \/ p \in sel.tgt
    \/ \E regex \in (IF sel.filter = {} /\ sel.tgt = {} THEN {".*"} ELSE sel.filter) :
          ReSearch(regex, p)

TimesRun(p) == Cardinality({i \in 1..Len(ran) : ran[i] = p})

\* C6: `exec` runs the command exactly once in every node that is reachable
\* through manifests from the root, exists, is not reached through a symlink
\* and matches a target or filter, and in no node that is a symlink, lies
\* below a linked node, or is missing.
C6_ExecOncePerNode ==
    (last.cmd = "exec" /\ last.flag /\ ~last.raised) =>
        \A p \in DeclaredPaths(disk, Top) :
            IF ThroughLink(disk, p) \/ ~Exists(disk, p) THEN TimesRun(p) = 0
            ELSE Selected(last.arg, p) => TimesRun(p) = 1

\* C9: `link --overlay T L` at the top level, T a materialized clean repo
\* and L a directory inside the tree, succeeds and leaves T a symlink that
\* resolves to L and that the overlay reconciler classifies as OVERLAYED; a
\* following `sync` completes without error and changes nothing.
C9_OverlayLinkApplied ==
    /\ (last.cmd = "link" /\ last.flag) =>
          /\ ~last.raised
          /\ IsLink(disk, Join(Top, last.arg))
          /\ RealPath(disk, Join(Top, last.arg)) = RealPath(disk, Join(Top, last.root))
          /\ check_for_overlay_state_match(disk, Join(Top, last.arg),
                 get_overlays(ManifestAt(disk, Top)[1], Top), Top) = OVERLAYED
    /\ (last.cmd = "sync" /\ last.flag) =>
          /\ ~last.raised
          /\ disk = before

\* the commands up to and including the first one that fails
RECURSIVE UpToFirstFailure(_)
UpToFirstFailure(cmds) ==
    IF cmds = <<>> THEN <<>>
    ELSE IF Head(cmds) \in FailingCmds THEN <<Head(cmds)>>
    ELSE <<Head(cmds)>> \o UpToFirstFailure(Tail(cmds))

\* the commands the last pull ran in directory p, in the order they ran
HooksRunIn(p) ==
    With(SelectSeq(last.hooks, LAMBDA h : h.dir = p),
         LAMBDA runs : [i \in 1..Len(runs) |-> runs[i].cmd])

\* was node p cloned by the last pull (it was missing or empty before)
ClonedByLast(p) ==
    ~((is_real_dir(before, p) /\ ~ListDirEmpty(before, p)) \/ IsLink(before, p))

\* was node p processed by the last pull (not filtered out by --target)
ProcessedByLast(p) == ~WorkSkip(Top, last.arg, p, None, FALSE)

\* what the claim has node p run: post_clone after a clone, post_pull after a
\* pull, in list order up to the first failure
HooksDue(p) ==
    With(ManifestView(disk, p),
         LAMBDA m : UpToFirstFailure(IF ClonedByLast(p) THEN m.post_clone ELSE m.post_pull))

HookFailedIn(p) ==
    HooksRunIn(p) # <<>> /\ HooksRunIn(p)[Len(HooksRunIn(p))] \in FailingCmds

\* C20: in the recursive walker a node's post_clone commands run exactly when
\* the node was cloned by this operation and its post_pull commands exactly
\* when it was pulled; they run in list order and stop at the first failure.
C20_HooksMatchOperation ==
    (last.cmd = "pull" /\ "hooks" \in DOMAIN last) =>
        /\ ProcessedByLast(<<"top", "kid">>) =>
              HooksRunIn(<<"top", "kid">>) = HooksDue(<<"top", "kid">>)
        /\ (ProcessedByLast(Top) /\ ~HookFailedIn(<<"top", "kid">>)) =>
              HooksRunIn(Top) = HooksDue(Top)

\* the node of L that a node of the copy corresponds to
NodeOfL(p) == Join(LPath, RelPath(p, CopyPath))

\* C11: after cloning from the local working tree L, every node of the clone,
\* the top-level node included, has its remote URL equal to the URL of the
\* same remote in the corresponding node of L, and no remote URL of the clone
\* is a path into L.
C11_LocalCloneRemotes ==
    (last.cmd = "clone" /\ ~last.raised /\ "src" \in DOMAIN last /\ "path" \in DOMAIN last.src) =>
        \A p \in DOMAIN disk :
            (IsPrefix(CopyPath, p) /\ disk[p].kind = "repo") =>
                /\ disk[p].url # LocalUrl
                /\ IsRepo(disk, NodeOfL(p)) => disk[p].url = disk[NodeOfL(p)].url

\* working tree x is an ancestor of working tree y
IsAncestor(x, y) == x # y /\ IsPrefix(x, y)

\* C13: in one `push` run, for every pair of pushed nodes where one is an
\* ancestor of the other, the descendant's push completes before the
\* ancestor's push starts; and if the push of a node fails, no ancestor of
\* that node is pushed in that run.
C13_ChildrenBeforeParents ==
    (last.cmd = "push" /\ "pushes" \in DOMAIN last) =>
        \A i, j \in 1..Len(last.pushes) :
            /\ i < j => ~IsAncestor(last.pushes[i].repo, last.pushes[j].repo)
            /\ ~last.pushes[i].ok => ~IsAncestor(last.pushes[j].repo, last.pushes[i].repo)

\* the same for the runs in which every directory git was run in is the root
\* of its own working tree
OrderAmongOwnRoots ==
    (last.cmd = "push" /\ "pushes" \in DOMAIN last
       /\ \A i \in 1..Len(last.pushes) : last.pushes[i].root = last.pushes[i].repo) =>
        \A i, j \in 1..Len(last.pushes) :
            /\ i < j => ~IsAncestor(last.pushes[i].repo, last.pushes[j].repo)
            /\ ~last.pushes[i].ok => ~IsAncestor(last.pushes[j].repo, last.pushes[i].repo)

\* the real directory p of a child repo holds uncommitted or stashed changes
HasLocalWork(d, p) ==
    p \in DOMAIN d /\ p # Top /\ d[p].kind = "repo" /\ (d[p].changes \/ d[p].stashed)

\* C12: without --force, no step of pull, sync, link or rm (the overlay
\* applier included) deletes or replaces a real directory of a child repo
\* that holds uncommitted, untracked or stashed changes: the directory is
\* still there with its content afterwards.
C12_NoClobberWithoutForce ==
    (last.cmd \in {"pull", "sync", "link", "rm"} /\ "force" \in DOMAIN last /\ ~last.force) =>
        \A p \in DOMAIN before :
            HasLocalWork(before, p) =>
                /\ p \in DOMAIN disk
                /\ disk[p].kind = "repo"
                /\ disk[p].changes = before[p].changes
                /\ disk[p].stashed = before[p].stashed

\* C21: whenever a hook command runs, GITP_PARENT_REPO is '1' if the hook
\* belongs to the top-level repo and '0' if it belongs to a child, also when
\* the top-level repo has children that are processed before its hooks run.
C21_ParentRepoEnv ==
    (last.cmd = "pull" /\ "hooks" \in DOMAIN last) =>
        \A i \in 1..Len(last.hooks) :
            last.hooks[i].env = IF last.hooks[i].dir = Top THEN "1" ELSE "0"

\* the nodes below root, by their full path, whose branch or commit (or
\* link) differs from their entry in their parent's manifest
RECURSIVE UnalignedNodes(_, _)
UnalignedNodes(d, root) ==
    With(ManifestAt(d, root), LAMBDA m :
        IF m = <<>> THEN {}
        ELSE UNION { (IF ChildState(d, Join(root, c), m[1].repos[c]).state = UNALIGNED
                      THEN {Join(root, c)} ELSE {})
                     \cup UnalignedNodes(d, Join(root, c)) : c \in DOMAIN m[1].repos })

\* p is the target of an overlay of the top manifest, and the symlink there
\* leads where the entry says
OverlayInPlace(d, p) ==
    With(get_overlays(ManifestAt(d, Top)[1], Top), LAMBDA overlays :
        /\ p \in DOMAIN overlays
        /\ IsLink(d, p)
        /\ RealPath(d, p) = NormPath(Join(Top, TextPath(overlays[p].link))))

\* C22: `push` without --force, on a tree in which some node is UNALIGNED
\* (other than a top-level overlay target that is correctly OVERLAYED),
\* fails before any node is pushed (the lock server is contacted only after
\* the check); with --force the check is skipped, and the run fails only
\* when a push is refused.
C22_PushNeedsAlignment ==
    (last.cmd = "push" /\ "pushes" \in DOMAIN last) =>
        /\ (~last.flag /\ \E p \in UnalignedNodes(before, Top) : ~OverlayInPlace(before, p))
              => (last.raised /\ last.pushes = <<>>)
        /\ (last.flag /\ last.raised)
              => \E i \in 1..Len(last.pushes) : ~last.pushes[i].ok

\* C23: `commit` never runs the underlying commit in a node that is the
\* target of a top-level overlay: the commit walk visits no overlay target
\* path, whether it is reached through the top-level manifest or through a
\* child's manifest.
C23_CommitSkipsOverlayTargets ==
    (last.cmd = "commit" /\ "visits" \in DOMAIN last /\ ManifestAt(before, Top) # <<>>) =>
        \A i \in 1..Len(last.visits) :
            last.visits[i].root \notin DOMAIN get_overlays(ManifestAt(before, Top)[1], Top)

\* the keys of the manifest of root (none when there is no manifest)
EntryKeys(d, root) ==
    IF ~IsDir(d, root) \/ ManifestAt(d, root) = <<>> THEN {}
    ELSE DOMAIN ManifestAt(d, root)[1].repos

\* C24: if materializing the child fails during `new X` (e.g. an
\* unreachable URL), the entry for X is rolled back: after the failed
\* command the manifest has no entry for X and .gitignore has no line for X.
C24_FailedNewRolledBack ==
    (last.cmd = "new" /\ last.raised /\ last.root # <<>>) =>
        LET X == RelPath(Join(Top, last.arg), last.root)
        IN  /\ X \notin EntryKeys(before, last.root) => X \notin EntryKeys(disk, last.root)
            /\ X \notin IgnoreEntries(before, last.root) => X \notin IgnoreEntries(disk, last.root)

\* some working tree at or below the directory p has uncommitted changes
ModifiedBelow(d, p) ==
    \E q \in DOMAIN d : IsPrefix(p, q) /\ d[q].kind = "repo" /\ d[q].changes

\* `rm X` without --force was run on a manifest entry X whose directory, or
\* a repo below it, had local changes
RmOfModified ==
    /\ last.cmd = "rm" /\ "force" \in DOMAIN last /\ ~last.force
    /\ Join(Top, last.arg) \in DeclaredPaths(before, Top) \ {Top}
    /\ is_real_dir(before, Join(Top, last.arg))
    /\ ModifiedBelow(before, Join(Top, last.arg))

\* C25: `rm X` without --force, where X is a manifest entry whose directory
\* (or any descendant repo) has local changes, is rejected with an error and
\* has no side effects on disk: the manifest still has the entry for X,
\* .gitignore still lists X, and the directory is untouched.
C25_RmKeepsModifiedChild ==
    RmOfModified => (last.raised /\ disk = before)

C25_Witness ==
    /\ RmOfModified
    /\ last.raised
    /\ last.arg = <<"child1">>
    /\ before[<<"top", "child1", "gchild1">>].changes
    /\ ~before[<<"top", "child1">>].changes

\* C26: `new --from U X` is rejected with an error whenever U is a relative
\* filesystem path (whatever its first character), and the rejection leaves
\* the manifest entries and .gitignore unchanged.
C26_RelativeUrlRejected ==
    (last.cmd = "new" /\ "url" \in DOMAIN last /\ last.url \in RelativeUrls) =>
        /\ last.raised
        /\ \A p \in {q \in DOMAIN before : before[q].kind = "repo"} :
              /\ p \in DOMAIN disk
              /\ ManifestView(disk, p) = ManifestView(before, p)
              /\ disk[p].gitignore = before[p].gitignore

\* the node p is named by the target: the node itself, and with a trailing
\* separator its descendants
InTarget(target, p) ==
    IF EndsWithSep(target) THEN IsPrefix(Join(Top, TrimSep(target)), p)
    ELSE p = Join(Top, target)

\* C27: with target "sub" exactly the node sub is processed, with target
\* "sub/" exactly sub and its descendants; every other node is left
\* untouched, including nodes whose path merely has sub as a string prefix
\* and including link entries under --local.
C27_TargetFilter ==
    (last.cmd = "pull" /\ last.arg # <<>>) =>
        /\ \A p \in (DOMAIN before \cup DOMAIN disk) \ {Top} :
              ~InTarget(last.arg, p) =>
                  (p \in DOMAIN before /\ p \in DOMAIN disk /\ disk[p] = before[p])
        /\ ~last.raised =>
              \A p \in DeclaredPaths(disk, Top) :
                  InTarget(last.arg, p) => Exists(disk, p)

\* where a symlink at path leads, and where the entry's link leads from the
\* directory of the manifest
LinkTarget(d, path) == NormPath(Join(DirName(path), TextPath(ReadLink(d, path))))
ResolvedLink(root, child_info) == NormPath(Join(root, TextPath(child_info.link)))

\* the state of the table for the entry child_info of the manifest of root,
\* the child being at path (None: not reported)
TableState(d, root, path, child_info) ==
    IF child_info.link # None
    THEN IF (~Exists(d, path) \/ ListDirEmpty(d, path)) /\ ~IsLink(d, path) THEN NONEXISTENT
         ELSE IF is_real_dir(d, path) THEN UNLINKED
         ELSE IF IsLink(d, path) /\ LinkTarget(d, path) # ResolvedLink(root, child_info)
         THEN UNALIGNED
         ELSE None
    ELSE IF ~is_real_dir(d, path) \/ ListDirEmpty(d, path) THEN NONEXISTENT
         ELSE IF \/ child_info.commit = None /\ child_info.branch # None
                    /\ get_current_branch(d, path) # child_info.branch
                 \/ child_info.commit # None
                    /\ ~CommitStartsWith(get_current_commit(d, path), child_info.commit)
         THEN UNALIGNED
         ELSE None

\* C29: check_for_state_match classifies every direct child entry as in the
\* table: with link set, NONEXISTENT if the path is missing or empty and not
\* a symlink, UNLINKED if it is a real directory, UNALIGNED if it is a
\* symlink whose target differs from the resolved link, not reported if the
\* symlink points at the resolved link; with link unset, NONEXISTENT if
\* missing or empty, UNALIGNED if the branch differs from the declared
\* branch (no pin) or HEAD does not start with the declared commit, and not
\* reported otherwise.
C29_StateTable ==
    (IsRepo(disk, Top) /\ ManifestAt(disk, Top) # <<>>) =>
        \A c \in DOMAIN ManifestAt(disk, Top)[1].repos :
            ChildState(disk, Join(Top, c), ManifestAt(disk, Top)[1].repos[c]).state
              = TableState(disk, Top, Join(Top, c), ManifestAt(disk, Top)[1].repos[c])

\* the nodes check_for_state_match reports for the entries children of the
\* manifest of root and, below each, for the entries of its own manifest:
\* the full path of every node whose state on disk disagrees with its entry,
\* in the order of the walk
RECURSIVE ReportedNodes(_, _, _)
ReportedNodes(d, root, children) ==
    IF children = <<>> THEN <<>>
    ELSE With(Join(root, Head(children)), LAMBDA path :
            (IF ChildState(d, path, ManifestAt(d, root)[1].repos[Head(children)]).state # None
             THEN <<path>> ELSE <<>>)
            \o (IF ManifestAt(d, path) = <<>> THEN <<>>
                ELSE ReportedNodes(d, path, ChildKeys(ManifestAt(d, path)[1])))
            \o ReportedNodes(d, root, Tail(children)))

\* C30: every key of the mapping returned by
\* check_for_state_match(root, recurse=True) is the reported node's full
\* path relative to root, for nodes at every depth (so that no two distinct
\* nodes share a key).
C30_KeysAreRootRelative ==
    (IsRepo(disk, Top) /\ is_real_dir(disk, Top) /\ ManifestAt(disk, Top) # <<>>) =>
        With(check_for_state_match(disk, Top, TRUE, {}, <<>>, <<>>), LAMBDA ans :
            With(ReportedNodes(disk, Top, ChildKeys(ManifestAt(disk, Top)[1])), LAMBDA nodes :
                /\ Len(ans) = Len(nodes)
                /\ \A i \in 1..Len(ans) : ans[i].key = RelPath(nodes[i], Top)))

\* what the tree d holds at p and below it
Under(d, p) == [q \in {x \in DOMAIN d : IsPrefix(p, x)} |-> d[q]]

\* C31: an entry of type overlay in a manifest below the top level is
\* ignored by the sync engine: pull, clone and sync never create, replace or
\* remove a symlink or directory on account of such an entry (what is at the
\* entry's path is after the command what it was before).
C31_NestedOverlayIgnored ==
    last.cmd \in {"pull", "sync", "clone"} =>
        \A p \in NestedOverlayTargets : Under(disk, p) = Under(before, p)

\* the nodes declared below root with a commit pin and no link, at every
\* depth, each with the commit its entry declares
RECURSIVE PinnedNodes(_, _)
PinnedNodes(d, root) ==
    With(ManifestAt(d, root), LAMBDA m :
        IF m = <<>> THEN {}
        ELSE UNION { (IF m[1].repos[c].commit # None /\ m[1].repos[c].link = None
                      THEN {[path |-> Join(root, c), commit |-> m[1].repos[c].commit]} ELSE {})
                     \cup PinnedNodes(d, Join(root, c)) : c \in DOMAIN m[1].repos })

\* C32: after pull, clone or `new --commit C` has successfully processed a
\* node whose manifest entry declares commit C, the node's HEAD commit has C
\* as a prefix, whatever the tip of the declared branch is (pull and clone
\* process every declared node, new the node it adds).
C32_PinEnforced ==
    (last.cmd \in {"pull", "clone", "new"} /\ ~last.raised) =>
        \A n \in PinnedNodes(disk, last.root) :
            (last.cmd = "new" => n.path = Join(last.root, last.arg)) =>
                /\ is_real_dir(disk, n.path)
                /\ CommitStartsWith(get_current_commit(disk, n.path), n.commit)

\* the lines without their positions
Unnumbered(lines) == [i \in 1..Len(lines) |-> [lines[i] EXCEPT !.pos = 0]]

\* the lines of a stack that the operation on the reference ref leaves
Surviving(lines, op, ref) ==
    SelectSeq(lines, LAMBDA l : l.id \notin {t.id : t \in Range(Targets(lines, op, ref))})

\* C33: stash drop / stash pop of one super-stash from a stack of n >= 2
\* entries completes and leaves .gitp_stashes holding exactly the n-1
\* surviving entries, each a single line, in their original relative order;
\* no surviving entry is lost or duplicated.
C33_SurvivorsKept ==
    (/\ stash_op # <<>>
     /\ stash_op.op \in {"pop", "drop"}
     /\ ~stash_op.unknown
     /\ Len(stash_op.lines) >= 2
     /\ Len(Targets(stash_op.lines, stash_op.op, stash_op.ref)) = 1) =>
        /\ ~stash_raised
        /\ Unnumbered(gitp_stashes)
             = Unnumbered(Surviving(stash_op.lines, stash_op.op, stash_op.ref))

\* the ids of the super-stashes the last pop, drop or clear operated on
TargetedIds == { t.id : t \in Range(Targets(stash_op.lines, stash_op.op, stash_op.ref)) }

\* git refuses to pop an entry onto local modifications of a file it touches
PopRefused ==
    /\ stash_op.op = "pop"
    /\ \E r \in StashRepoSet : \E i \in 1..Len(stash_op.gs[r]) :
           stash_op.gs[r][i].msg.id \in TargetedIds /\ stash_op.gs[r][i].changes \cap stash_op.wt[r] # {}

\* C34: for pop/drop/clear of a set of super-stashes, in every repo exactly
\* the per-repo stash entries whose message embeds the ID of a targeted
\* super-stash are popped or dropped; per-repo stashes that are not gitp
\* stashes, or that carry another ID, are left in place, also when one repo
\* holds several matching entries (as with clear).
C34_ExactlyMatchingEntries ==
    (/\ stash_op # <<>>
     /\ stash_op.op \in {"pop", "drop", "clear"}
     /\ ~stash_op.unknown
     /\ ~PopRefused) =>
        \A r \in StashRepoSet : git_stash[r] = NotOfIds(stash_op.gs[r], TargetedIds)

\* C35: with the modified switch, the nodes in which exec runs a command are
\* among the target/filter-matching nodes that report local changes: a node
\* that matches no target and no filter is never executed, even if it has
\* local changes.
C35_ModifiedWithinSelection ==
    (last.cmd = "exec" /\ last.arg.modified /\ ~last.raised) =>
        \A i \in 1..Len(ran) :
            /\ Selected(last.arg, ran[i])
            /\ check_for_changes(disk, ran[i], FALSE) # {}

\* the child subdirectories of the container whose name matches the filter
\* (any subdirectory when no filter is given)
MatchingSubdirs(d, container, link_filter) ==
    {p \in DOMAIN d : /\ p # <<>> /\ DirName(p) = container /\ IsDir(d, p)
                      /\ (link_filter = None \/ BaseName(p) = link_filter)}

\* among them, those modified most recently
NewestSubdirs(d, container, link_filter) ==
    {p \in MatchingSubdirs(d, container, link_filter) :
        \A q \in MatchingSubdirs(d, container, link_filter) : d[q].mtime <= d[p].mtime}

\* C36: for an entry with link_newest set, the effective link target
\* returned by resolve_repo_link/get_latest_subdir is the most recently
\* modified child subdirectory of the link container whose name matches
\* link_filter (any subdirectory when no filter is given), and None (or an
\* error when strict) when no subdirectory matches.
C36_NewestSubdirResolved ==
    last.cmd = "resolve" =>
        With(ManifestAt(before, Top)[1].repos[<<"lib">>], LAMBDA entry :
            IF MatchingSubdirs(before, Builds, entry.link_filter) # {}
            THEN /\ ~last.raised
                 /\ last.arg # <<>>
                 /\ last.arg[1] \in NewestSubdirs(before, Builds, entry.link_filter)
            ELSE IF last.flag THEN last.raised
                 ELSE ~last.raised /\ last.arg = <<>>)

\* obtain_server_lock has sent 'done' to the server and closed the socket
DoneSent(c) == cpc[c] \in {"return", "raising", "exit0", "exit1"} /\ cstate[c] = "data"

\* C37: on client-side timeout the protected operation is aborted: once
\* obtain_server_lock has sent 'done' (or closed the socket) to the server,
\* the protected operation's worker performs no further step.
C37_NoStepAfterDone ==
    [][\A c \in ClientConns : DoneSent(c) => wstep'[c] = wstep[c] /\ inflight'[c] = inflight[c]]_vars

\* the client process has ended
Exited(c) == cpc[c] \in {"exit0", "exit1"}

\* C38: running push, pull or fetch under a configured lock server yields
\* the same outcome as running it without one: if the protected operation
\* fails, the client reports the error and exits non-zero, exactly as it
\* does when no lock server is configured.
C38_FailureReported ==
    \A c \in ClientConns : Exited(c) /\ wpc[c] = "raised" => cpc[c] = "exit1"

\* some manifest entry on disk denotes p or a path below p
DeclaredAtOrBelow(d, p) ==
    \E r \in {q \in DOMAIN d : d[q].manifest # <<>>} :
        \E k \in DOMAIN ManifestAt(d, r)[1].repos : IsPrefix(p, Join(r, k))

\* C39: `new P`, invoked from an ancestor repo for a path P inside an
\* existing child repo R, is accepted whenever no existing manifest entry
\* lies at or below P, even if R's manifest already declares other children;
\* the entry is then added to R's manifest under P's path relative to R.
\* (P is a free path in an existing directory and the url is a repository
\* that can be cloned.)
C39_NestedNewAccepted ==
    last.cmd = "new" /\ last.url = "u_ggchild" =>
        With(Join(Top, last.arg), LAMBDA P :
        With(EnclosingRepo(before, DirName(P)), LAMBDA R :
            (/\ R \notin {<<>>, Top}
             /\ ~IsLink(before, R)
             /\ P \notin DOMAIN before
             /\ IsDir(before, DirName(P))
             /\ ~DeclaredAtOrBelow(before, P))
            => /\ ~last.raised
               /\ ManifestAt(disk, R) # <<>>
               /\ RelPath(P, R) \in DOMAIN ManifestAt(disk, R)[1].repos))

\* the entry the parent's manifest holds for the repo at path child
ParentEntry(d, child) ==
    ManifestAt(d, ParentRoot(d, child))[1].repos[RelPath(child, ParentRoot(d, child))]

\* C40: after a successful ref-only `checkout <ref>` inside a child repo
\* (ref a branch, a tag or a commit, whether or not the parent's entry
\* previously carried a commit pin), the parent manifest's entry for that
\* child agrees with the child's new HEAD, so that check_for_state_match on
\* the parent does not report the child as UNALIGNED.
C40_ParentEntryFollowsHead ==
    last.cmd = "checkout" /\ ~last.raised =>
        /\ ChildState(disk, last.root, ParentEntry(disk, last.root)).state # UNALIGNED
        /\ ~InMismatches(check_for_state_match(disk, ParentRoot(disk, last.root), FALSE,
                                               {UNALIGNED}, <<>>, <<>>),
                         RelPath(last.root, ParentRoot(disk, last.root)))
====
